---- MODULE Spec2Model ----
(***************************************************************************)
(* LipidFinder PeakFilter: peak-frame consolidation (PeakFinder.py) and    *)
(* mass clustering (Clustering.py) as state machines.                      *)
(*                                                                         *)
(* Conventions                                                             *)
(*  - Arrays are sequences, so every index is the source's 0-based index   *)
(*    plus one: lowestIndex is 1 and highestIndex is Len(intensities).     *)
(*  - Intensities are non-negative integers.                               *)
(*  - peakMinFoldDiff is a rational num / den, so the source's test       *)
(*    peakMinFoldDiff * a >= b  is  num * a >= den * b.                    *)
(*  - m/z values and m/z errors are integers in units of 1e-6 (the        *)
(*    table's resolution); mz_delta rounds to 5 decimals, a multiple of    *)
(*    DeltaGrid.  Row indices of cluster_by_mz keep the source's 0-based   *)
(*    values; Row(i) reads the table at source index i.                    *)
(*  - Retention times are integers in units of 1/20000 minute, so that     *)
(*    the midpoint of two retention times given to 4 decimals is exact;    *)
(*    round(x, 3) is rounding to a multiple of RTRoundUnit, half to even.  *)
(***************************************************************************)
EXTENDS Integers, Sequences, FiniteSets, TLC

VARIABLES
    \* ---- PeakFinder.__single_rep_feature__ / __feat_peak_analysis__ ----
    pc,               \* position in the per-replicate pass
    intensities,      \* the replicate's intensity array (mutated in place)
    repRT,            \* retention times of the frames
    peakCategory,     \* frame categories "--", "PC", "PF", "PS", "SF"
    intensityPeakCat, \* copy of the intensities, categorised frames set to -1
    peakCentreIndex, peakLowestIndex, peakHighestIndex,
    rtPC, widePeak, framesLeft, framesRight,
    peakMinFoldDiff,  \* parameters['peakMinFoldDiff'], a rational [num, den]
    peakMaxRTWidth,   \* parameters['peakMaxRTWidth']
    concatAllFrames,  \* parameters['concatAllFrames']
    \* ---- history (not program state) ----
    origIntensities,  \* the intensity array before the pass
    catAtIterStart,   \* peakCategory when the current iteration began
    iterations,       \* number of iterations of the categorisation loop begun
    peakLog,          \* the peaks finalised so far: [centre, low, high]
    \* ---- Clustering.cluster_by_mz ----
    mzpc,                \* position in cluster_by_mz
    mzTable,             \* data[mzCol], sorted ascending, in units of 1e-6
    mzFixedError,        \* parameters['mzFixedError'], in units of 1e-6
    mzPPMError,          \* parameters['mzPPMError']
    mzClusterSectionID,  \* auxData['mzClusterSectionID'], 0 for NaN
    sectionBegin, clusterSectionID,
    mzClusterID,         \* data['mzClusterID'], 0 for NaN
    currentMaxClusterID,
    sectionID,           \* the section the clustering loop is at
    \* ---- history (not program state) ----
    flatCluster,         \* per frame <<section, rank of its cluster in the
                         \* section>>: the clusters fcluster returned
    fclusterLabels,      \* data['mzClusterID'] before the renumbering pass
    \* ---- Clustering.cluster_by_features ----
    featpc,              \* position in cluster_by_features
    featData,            \* the rows of data: [mzClusterID, rt, mz]
    maxRTDiffAdjFrame,   \* parameters['maxRTDiffAdjFrame']
    featureClusterIDs,   \* data['FeatureClusterID'], 0 for NaN
    featIndex,           \* index of the loop over the rows
    featID,              \* id, the feature cluster ID being given
    \* ---- PeakFinder.__process_feature__ ----
    replicates,          \* the columns of the feature cluster: DummyColumn,
                         \* then the sample replicates
    pending,             \* the columns apply() has not yet passed on
    curCol,              \* the column __single_rep_feature__ is working on
    dummyCalls,          \* number of calls made on DummyColumn
    \* ---- history (not program state) ----
    origReplicates,      \* the columns before apply()
    applyOrder,          \* the columns in the order they were processed
    \* ---- LFDataFrame.drop_empty_frames ----
    frame,               \* the dataframe: rows [label, cols], label being the
                         \* row's index label and cols its column values
    firstSampleIndex,    \* parameters['firstSampleIndex']
    numSamples,          \* parameters['numSamples']
    numTechReps,         \* parameters['numTechReps']
    reapCalls,           \* number of calls of drop_empty_frames made
    \* ---- history (not program state) ----
    frameBefore,         \* the dataframe before the first call
    frameAfterFirst,     \* the dataframe after the first call
    \* ---- _utils.mz_tol_range ----
    tolpc,               \* "call" before the call, "done" after it
    tolMz,               \* mz, in units of 1e-6
    tolFixedErr,         \* fixederr, in units of 1e-6
    tolPPMErr,           \* ppmerr
    tolRange             \* the pair returned, in units of 1e-6

mzVars == <<mzpc, mzTable, mzFixedError, mzPPMError, mzClusterSectionID,
            sectionBegin, clusterSectionID, mzClusterID, currentMaxClusterID,
            sectionID, flatCluster, fclusterLabels>>

peakVars == <<pc, intensities, repRT, peakCategory, intensityPeakCat,
              peakCentreIndex, peakLowestIndex, peakHighestIndex,
              rtPC, widePeak, framesLeft, framesRight,
              peakMinFoldDiff, peakMaxRTWidth, concatAllFrames,
              origIntensities, catAtIterStart, iterations, peakLog>>

featVars == <<featpc, featData, maxRTDiffAdjFrame, featureClusterIDs,
              featIndex, featID>>

\* the state of the operations other than the per-replicate pass and
\* cluster_by_mz
applyVars == <<replicates, pending, curCol, dummyCalls, origReplicates,
               applyOrder>>

reapVars == <<frame, firstSampleIndex, numSamples, numTechReps, reapCalls,
              frameBefore, frameAfterFirst>>

tolVars == <<tolpc, tolMz, tolFixedErr, tolPPMErr, tolRange>>

otherVars == <<featVars, applyVars, reapVars, tolVars>>

vars == <<peakVars, mzVars, otherVars>>

-----------------------------------------------------------------------------
(* Bounds and input sets *)

MaxFrames == 4

RTRoundUnit == 20

IntensityVals == {0, 1, 2, 5}

DistinctVals == {0, 1, 2, 4, 5}

MaxReapRows == 3

\* m/z values up to this many units of 1e-6 above a starting value
MaxMzOffset == 25

\* fixederr: 0, 0.000004, 0.000006 and 0.00002
TolFixedErrors == {0, 4, 6, 20}

ReapMzs == {10000}

ReapIntensities == {0, 5}

\* the intensity arrays of the replicates of one feature cluster
ReplicateArrays ==
    {<<5, 2, 1>>, <<2, 5, 2>>, <<0, 5, 0>>, <<1, 2, 5>>, <<5, 5, 2>>,
     <<2, 0, 5>>, <<4, 5, 2>>}

\* peakMinFoldDiff: 1.5 and 2.0
FoldDiffs == {[num |-> 3, den |-> 2], [num |-> 2, den |-> 1]}

RTStarts == {20000}

RTGaps == {1000, 1510}

RTWidths == {2000, 6000}

ScenarioB == <<10, 100, 90, 5, 0>>

ScenarioC == <<50, 48>>

\* cluster_by_mz: sectionMinSize = 49
sectionMinSize == 49

\* the factor 1e-6 of the PPM error
MzScale == 1000000

\* five decimals, in units of 1e-6
DeltaGrid == 10

MaxSmallTable == 3

MaxTail == 4

MaxPermClusters == 3

MzStarts == {10000}

PadGaps == {1000}

GapVals == {0, 50, 130, 9000}

MaxFeatRows == 4

MaxMzClusters == 2

\* retention times of the rows given to cluster_by_features
FeatRTs == {20000, 21000, 22500}

FeatMzs == {10000, 10130}

\* maxRTDiffAdjFrame: 0.05 and 0.075 min
RTDiffs == {1000, 1500}

FixedErrors == {0, 20}

PPMErrors == {0, 1000}

-----------------------------------------------------------------------------
(* Helpers *)

RECURSIVE SumRange(_, _, _)
SumRange(s, lo, hi) == IF lo > hi THEN 0 ELSE s[lo] + SumRange(s, lo + 1, hi)

SumSeq(s) == SumRange(s, 1, Len(s))

MaxOf(S) == CHOOSE x \in S : \A y \in S : y <= x

\* Python's round(): x / m to the nearest integer, exact halves to even
RoundHalfEven(x, m) ==
    LET q == x \div m
        r == x % m
    IN  IF 2 * r < m THEN q
        ELSE IF 2 * r > m THEN q + 1
        ELSE IF q % 2 = 0 THEN q ELSE q + 1

\* variant: every frame is counted, zero or not
CountNonzero_AllFrames(s) == Len(s)

\* numpy.count_nonzero
CountNonzero(s) == Cardinality({i \in 1..Len(s) : s[i] # 0})

\* round(x, 3) of a value held in units of 1/20000: nearest multiple of
\* RTRoundUnit, exact halves to the even multiple
Round3(x) == RTRoundUnit * RoundHalfEven(x, RTRoundUnit)

\* peakMinFoldDiff * a >= b
FoldGE(a, b) == peakMinFoldDiff.num * a >= peakMinFoldDiff.den * b

\* variant: the last index holding the maximum
ArgMax_Last(s) == CHOOSE i \in 1..Len(s) :
                     /\ \A j \in 1..Len(s) : s[j] <= s[i]
                     /\ \A j \in (i + 1)..Len(s) : s[j] < s[i]

\* numpy.argmax: the first index holding the maximum
ArgMax(s) == CHOOSE i \in 1..Len(s) :
                /\ \A j \in 1..Len(s) : s[j] <= s[i]
                /\ \A j \in 1..(i - 1) : s[j] < s[i]

RECURSIVE SolventsLowLoop(_, _, _)
SolventsLowLoop(cat, ints, p) ==
    IF 1 < p
    THEN IF cat[p - 1] = "--" /\ ints[p - 1] # 0
         THEN IF FoldGE(ints[p], ints[p - 1])
              THEN SolventsLowLoop([cat EXCEPT ![p - 1] = "SF"], ints, p - 1)
              ELSE cat
         ELSE cat
    ELSE cat

solvents_low_rt(cat, ints, p) ==
    SolventsLowLoop([cat EXCEPT ![p] = "SF"], ints, p)

RECURSIVE SolventsHighLoop(_, _, _)
SolventsHighLoop(cat, ints, p) ==
    IF Len(ints) > p
    THEN IF cat[p + 1] = "--" /\ ints[p + 1] # 0
         THEN IF FoldGE(ints[p], ints[p + 1])
              THEN SolventsHighLoop([cat EXCEPT ![p + 1] = "SF"], ints, p + 1)
              ELSE cat
         ELSE cat
    ELSE cat

solvents_high_rt(cat, ints, p) ==
    SolventsHighLoop([cat EXCEPT ![p] = "SF"], ints, p)

\* the solvent feature found around the peak centre: low range, then high
SolventFeature(cat, ints, c) ==
    solvents_high_rt(solvents_low_rt(cat, ints, c), ints, c)

-----------------------------------------------------------------------------
(* Inputs *)

RECURSIVE FromGaps(_, _)
FromGaps(start, gaps) ==
    IF Len(gaps) = 0 THEN <<start>>
    ELSE LET prev == FromGaps(start, SubSeq(gaps, 1, Len(gaps) - 1))
         IN  Append(prev, prev[Len(prev)] + gaps[Len(gaps)])

IntensityArrays ==
    UNION {[1..n -> IntensityVals] : n \in 1..MaxFrames}
        \cup {ScenarioB, ScenarioC}

RTArrays(n) == {FromGaps(s, g) : s \in RTStarts, g \in [1..(n - 1) -> RTGaps]}

\* cluster_by_mz not running
MzIdle ==
    /\ mzpc = "idle"
    /\ mzTable = <<>>
    /\ mzFixedError = 0
    /\ mzPPMError = 0
    /\ mzClusterSectionID = <<>>
    /\ sectionBegin = 0
    /\ clusterSectionID = 0
    /\ mzClusterID = <<>>
    /\ currentMaxClusterID = 0
    /\ sectionID = 0
    /\ flatCluster = <<>>
    /\ fclusterLabels = <<>>

\* cluster_by_features not running
FeatIdle ==
    /\ featpc = "idle"
    /\ featData = <<>>
    /\ maxRTDiffAdjFrame = 0
    /\ featureClusterIDs = <<>>
    /\ featIndex = 0
    /\ featID = 0

\* __process_feature__ not running
ApplyIdle ==
    /\ replicates = <<>>
    /\ pending = {}
    /\ curCol = 0
    /\ dummyCalls = 0
    /\ origReplicates = <<>>
    /\ applyOrder = <<>>

\* drop_empty_frames not called
ReapIdle ==
    /\ frame = <<>>
    /\ firstSampleIndex = 1
    /\ numSamples = 0
    /\ numTechReps = 0
    /\ reapCalls = 0
    /\ frameBefore = <<>>
    /\ frameAfterFirst = <<>>

\* mz_tol_range not called
TolIdle ==
    /\ tolpc = "idle"
    /\ tolMz = 0
    /\ tolFixedErr = 0
    /\ tolPPMErr = 0
    /\ tolRange = <<>>

OtherIdle == FeatIdle /\ ApplyIdle /\ ReapIdle /\ TolIdle

\* the per-replicate pass not running
PeakIdle ==
    /\ pc = "idle"
    /\ intensities = <<>>
    /\ repRT = <<>>
    /\ peakMinFoldDiff = [num |-> 2, den |-> 1]
    /\ peakMaxRTWidth = 0
    /\ concatAllFrames = FALSE
    /\ peakCategory = <<>>
    /\ intensityPeakCat = <<>>
    /\ peakCentreIndex = 0
    /\ peakLowestIndex = 0
    /\ peakHighestIndex = 0
    /\ rtPC = 0
    /\ widePeak = "None"
    /\ framesLeft = TRUE
    /\ framesRight = TRUE
    /\ origIntensities = <<>>
    /\ catAtIterStart = <<>>
    /\ iterations = 0
    /\ peakLog = <<>>

\* the state when __single_rep_feature__ is called with one of the arrays
InitPeakFrom(arrays) ==
    /\ MzIdle
    /\ OtherIdle
    /\ pc = "start"
    /\ intensities \in arrays
    /\ repRT \in RTArrays(Len(intensities))
    /\ peakMinFoldDiff \in FoldDiffs
    /\ peakMaxRTWidth \in RTWidths
    /\ concatAllFrames \in BOOLEAN
    /\ peakCategory = <<>>
    /\ intensityPeakCat = <<>>
    /\ peakCentreIndex = 0
    /\ peakLowestIndex = 0
    /\ peakHighestIndex = 0
    /\ rtPC = 0
    /\ widePeak = "None"
    /\ framesLeft = TRUE
    /\ framesRight = TRUE
    /\ origIntensities = intensities
    /\ catAtIterStart = <<>>
    /\ iterations = 0
    /\ peakLog = <<>>

InitPeak == InitPeakFrom(IntensityArrays)

\* arrays whose non-zero intensities are pairwise distinct
DistinctArrays ==
    {a \in UNION {[1..n -> DistinctVals] : n \in 1..MaxFrames} :
        \A i, j \in 1..Len(a) : (i # j /\ a[i] # 0 /\ a[j] # 0) => a[i] # a[j]}

InitPeakDistinct == InitPeakFrom(DistinctArrays)

paramVars == <<repRT, peakMinFoldDiff, peakMaxRTWidth, concatAllFrames,
               origIntensities, mzVars, otherVars>>

-----------------------------------------------------------------------------
(* __single_rep_feature__ *)

\* fewer than 2 non-zero frames: no processing
SkipFeature ==
    /\ pc = "start"
    /\ ~(CountNonzero(intensities) > 1)
    /\ pc' = "done"
    /\ UNCHANGED <<intensities, peakCategory, intensityPeakCat,
                   peakCentreIndex, peakLowestIndex, peakHighestIndex,
                   rtPC, widePeak, framesLeft, framesRight,
                   catAtIterStart, iterations, peakLog, paramVars>>

\* variant: the category array of the previous call is used again when it
\* has the right size
NewCategories_Reused(ints) ==
    IF Len(peakCategory) = Len(ints)
    THEN peakCategory
    ELSE [i \in 1..Len(ints) |-> "--"]

\* numpy.empty_like(intensities, dtype='<U2') filled with '--'
NewCategories(ints) == [i \in 1..Len(ints) |-> "--"]

\* entry of __feat_peak_analysis__: the category array and the copy
BeginAnalysis ==
    /\ pc = "start"
    /\ CountNonzero(intensities) > 1
    /\ peakCategory' = NewCategories(intensities)
    /\ intensityPeakCat' = intensities
    /\ pc' = "loop"
    /\ UNCHANGED <<intensities, peakCentreIndex, peakLowestIndex,
                   peakHighestIndex, rtPC, widePeak, framesLeft, framesRight,
                   catAtIterStart, iterations, peakLog, paramVars>>

-----------------------------------------------------------------------------
(* __feat_peak_analysis__: the categorisation loop *)

Uncategorised(cat) == {i \in 1..Len(cat) : cat[i] = "--"}

\* variant: the loop runs while any frame is uncategorised, zero or not
LoopCondition_AnyUncategorised ==
    Cardinality(Uncategorised(peakCategory)) > 0

LoopCondition ==
    Cardinality(Uncategorised(peakCategory))
        > Cardinality({i \in 1..Len(intensities) : intensities[i] = 0})

\* loop test true: select the peak centre
SelectCentre ==
    /\ pc = "loop"
    /\ LoopCondition
    /\ LET ipc == [i \in 1..Len(intensities) |->
                     IF peakCategory[i] # "--" THEN -1 ELSE intensityPeakCat[i]]
           c == ArgMax(ipc)
       IN  /\ intensityPeakCat' = ipc
           /\ peakCentreIndex' = c
           /\ peakLowestIndex' = c
           /\ peakHighestIndex' = c
           /\ catAtIterStart' = peakCategory
           /\ peakCategory' = [peakCategory EXCEPT ![c] = "PC"]
           /\ rtPC' = repRT[c]
    /\ widePeak' = "None"
    /\ framesLeft' = TRUE
    /\ framesRight' = TRUE
    /\ iterations' = iterations + 1
    /\ pc' = "left"
    /\ UNCHANGED <<intensities, peakLog, paramVars>>

\* check left side for peakiness
CheckLeft ==
    /\ pc = "left"
    /\ LET low == peakLowestIndex
       IN  IF 1 < low /\ intensities[low - 1] # 0
           THEN IF FoldGE(intensities[low - 1], intensities[low])
                THEN IF 1 < low - 1 /\ intensities[low - 2] # 0
                     THEN IF FoldGE(intensities[low - 2], intensities[low - 1])
                          THEN /\ peakCategory' = SolventFeature(
                                     peakCategory, intensities, peakCentreIndex)
                               /\ pc' = "loop"
                               /\ UNCHANGED <<widePeak, peakLowestIndex,
                                              framesLeft>>
                          ELSE /\ widePeak' = "Left"
                               /\ peakLowestIndex' = low - 2
                               /\ pc' = "right"
                               /\ UNCHANGED <<peakCategory, framesLeft>>
                     ELSE /\ framesLeft' = FALSE
                          /\ widePeak' = "Left"
                          /\ peakLowestIndex' = low - 1
                          /\ pc' = "right"
                          /\ UNCHANGED peakCategory
                ELSE /\ peakLowestIndex' = low - 1
                     /\ pc' = "right"
                     /\ UNCHANGED <<peakCategory, widePeak, framesLeft>>
           ELSE /\ framesLeft' = FALSE
                /\ pc' = "right"
                /\ UNCHANGED <<peakCategory, widePeak, peakLowestIndex>>
    /\ UNCHANGED <<intensities, intensityPeakCat, peakCentreIndex,
                   peakHighestIndex, rtPC, framesRight, catAtIterStart,
                   iterations, peakLog, paramVars>>

\* check right side for peakiness
CheckRight ==
    /\ pc = "right"
    /\ LET high == peakHighestIndex
           n == Len(intensities)
       IN  IF n > high /\ intensities[high + 1] # 0
           THEN IF FoldGE(intensities[high + 1], intensities[high])
                THEN IF widePeak # "None"
                     THEN /\ peakCategory' = SolventFeature(
                                peakCategory, intensities, peakCentreIndex)
                          /\ pc' = "loop"
                          /\ UNCHANGED <<widePeak, peakHighestIndex,
                                         framesRight>>
                     ELSE IF n > high + 1 /\ intensities[high + 2] # 0
                     THEN IF FoldGE(intensities[high + 2], intensities[high + 1])
                          THEN /\ peakCategory' = SolventFeature(
                                     peakCategory, intensities, peakCentreIndex)
                               /\ pc' = "loop"
                               /\ UNCHANGED <<widePeak, peakHighestIndex,
                                              framesRight>>
                          ELSE /\ widePeak' = "Right"
                               /\ peakHighestIndex' = high + 2
                               /\ pc' = "relabel"
                               /\ UNCHANGED <<peakCategory, framesRight>>
                     ELSE /\ framesRight' = FALSE
                          /\ peakHighestIndex' = high + 1
                          /\ pc' = "relabel"
                          /\ UNCHANGED <<peakCategory, widePeak>>
                ELSE /\ peakHighestIndex' = high + 1
                     /\ pc' = "relabel"
                     /\ UNCHANGED <<peakCategory, widePeak, framesRight>>
           ELSE /\ framesRight' = FALSE
                /\ pc' = "relabel"
                /\ UNCHANGED <<peakCategory, widePeak, peakHighestIndex>>
    /\ UNCHANGED <<intensities, intensityPeakCat, peakCentreIndex,
                   peakLowestIndex, rtPC, framesLeft, catAtIterStart,
                   iterations, peakLog, paramVars>>

\* variant: the "PF" frames of the range are released instead of shared
RelabelRange_Released(cat, low, high) ==
    [i \in 1..Len(cat) |->
        IF i \in low..high /\ cat[i] = "PF" THEN "--"
        ELSE IF i \in low..high /\ cat[i] # "PC" /\ cat[i] # "PS" THEN "PF"
        ELSE cat[i]]

\* variant: a "PF" frame of the range stays "PF"
RelabelRange_NoShare(cat, low, high) ==
    [i \in 1..Len(cat) |->
        IF i \in low..high /\ cat[i] # "PC" /\ cat[i] # "PS"
        THEN "PF" ELSE cat[i]]

\* variant: a "PC" frame of the range is not kept
RelabelRange_CentresRelabelled(cat, low, high) ==
    LET shared == [i \in 1..Len(cat) |->
                     IF i \in low..high /\ cat[i] = "PF" THEN "PS" ELSE cat[i]]
    IN  [i \in 1..Len(cat) |->
           IF i \in low..high /\ shared[i] # "PS" THEN "PF" ELSE shared[i]]

\* "PF" frames of the range become "PS", then every frame of the range
\* that is neither "PC" nor "PS" becomes "PF"
RelabelRange(cat, low, high) ==
    LET shared == [i \in 1..Len(cat) |->
                     IF i \in low..high /\ cat[i] = "PF" THEN "PS" ELSE cat[i]]
    IN  [i \in 1..Len(cat) |->
           IF i \in low..high /\ shared[i] # "PC" /\ shared[i] # "PS"
           THEN "PF" ELSE shared[i]]

\* move rtPC to the centre point of a wide peak and categorise the frames
\* found while checking for peakiness
Relabel ==
    /\ pc = "relabel"
    /\ rtPC' = IF widePeak = "Left"
               THEN (repRT[peakCentreIndex] + repRT[peakCentreIndex - 1]) \div 2
               ELSE IF widePeak = "Right"
               THEN (repRT[peakCentreIndex] + repRT[peakCentreIndex + 1]) \div 2
               ELSE rtPC
    /\ peakCategory' = RelabelRange(peakCategory, peakLowestIndex,
                                    peakHighestIndex)
    /\ pc' = "growleft"
    /\ UNCHANGED <<intensities, intensityPeakCat, peakCentreIndex,
                   peakLowestIndex, peakHighestIndex, widePeak, framesLeft,
                   framesRight, catAtIterStart, iterations, peakLog, paramVars>>

HalfWidth == Round3(peakMaxRTWidth \div 2)

\* one iteration of the loop that completes the left part of the peak
GrowLeft ==
    /\ pc = "growleft"
    /\ LET low == peakLowestIndex
           prev == low - 1
       IN  IF framesLeft /\ 1 < low /\ intensities[prev] # 0
           THEN IF Round3(rtPC - repRT[prev]) <= HalfWidth
                THEN IF FoldGE(intensities[prev], intensities[low])
                     THEN /\ peakCategory' =
                               IF FoldGE(intensities[low], intensities[prev])
                               THEN solvents_low_rt(peakCategory, intensities,
                                                    prev)
                               ELSE peakCategory
                          /\ pc' = "growright"
                          /\ UNCHANGED peakLowestIndex
                     ELSE /\ peakLowestIndex' = prev
                          /\ peakCategory' =
                               [peakCategory EXCEPT ![prev] =
                                   IF peakCategory[prev] = "PF" THEN "PS"
                                   ELSE "PF"]
                          /\ pc' = "growleft"
                ELSE /\ peakCategory' =
                          IF /\ peakCategory[prev] = "--"
                             /\ FoldGE(intensities[low], intensities[prev])
                          THEN solvents_low_rt(peakCategory, intensities, prev)
                          ELSE peakCategory
                     /\ pc' = "growright"
                     /\ UNCHANGED peakLowestIndex
           ELSE /\ pc' = "growright"
                /\ UNCHANGED <<peakCategory, peakLowestIndex>>
    /\ UNCHANGED <<intensities, intensityPeakCat, peakCentreIndex,
                   peakHighestIndex, rtPC, widePeak, framesLeft, framesRight,
                   catAtIterStart, iterations, peakLog, paramVars>>

\* one iteration of the loop that completes the right part of the peak
GrowRight ==
    /\ pc = "growright"
    /\ LET high == peakHighestIndex
           next == high + 1
       IN  IF framesRight /\ Len(intensities) > high /\ intensities[next] # 0
           THEN IF Round3(repRT[next] - rtPC) <= HalfWidth
                THEN IF FoldGE(intensities[next], intensities[high])
                     THEN /\ peakCategory' =
                               IF FoldGE(intensities[high], intensities[next])
                               THEN solvents_high_rt(peakCategory, intensities,
                                                     next)
                               ELSE peakCategory
                          /\ pc' = "merge"
                          /\ UNCHANGED peakHighestIndex
                     ELSE /\ peakHighestIndex' = next
                          /\ peakCategory' =
                               [peakCategory EXCEPT ![next] =
                                   IF peakCategory[next] = "PF" THEN "PS"
                                   ELSE "PF"]
                          /\ pc' = "growright"
                ELSE /\ peakCategory' =
                          IF /\ peakCategory[next] = "--"
                             /\ FoldGE(intensities[high], intensities[next])
                          THEN solvents_high_rt(peakCategory, intensities, next)
                          ELSE peakCategory
                     /\ pc' = "merge"
                     /\ UNCHANGED peakHighestIndex
           ELSE /\ pc' = "merge"
                /\ UNCHANGED <<peakCategory, peakHighestIndex>>
    /\ UNCHANGED <<intensities, intensityPeakCat, peakCentreIndex,
                   peakLowestIndex, rtPC, widePeak, framesLeft, framesRight,
                   catAtIterStart, iterations, peakLog, paramVars>>

\* variant: the peak centre keeps its own intensity
MergedIntensity_CentreOnly(ints, cat, c, low, high) == ints[c]

\* variant: the slice of the peak stops before its last frame
MergedIntensity_OpenRange(ints, cat, c, low, high) ==
    IF concatAllFrames
    THEN SumRange(ints, low, high - 1)
    ELSE LET pfs == {i \in low..high : cat[i] = "PF"}
         IN  IF Cardinality(pfs) > 0
             THEN ints[c] + MaxOf({ints[i] : i \in pfs})
             ELSE ints[c]

\* variant: the default policy adds every "PF" frame of the peak
MergedIntensity_EveryPeakFrame(ints, cat, c, low, high) ==
    IF concatAllFrames
    THEN SumRange(ints, low, high)
    ELSE LET pfs == {i \in low..high : cat[i] = "PF"}
         IN  ints[c] + SumSeq([k \in 1..Len(ints) |->
                                  IF k \in pfs THEN ints[k] ELSE 0])

\* the intensity the peak centre takes when the peak is finalised
MergedIntensity(ints, cat, c, low, high) ==
    IF concatAllFrames
    THEN SumRange(ints, low, high)
    ELSE LET pfs == {i \in low..high : cat[i] = "PF"}
         IN  IF Cardinality(pfs) > 0
             THEN ints[c] + MaxOf({ints[i] : i \in pfs})
             ELSE ints[c]

\* peak concatenation
Merge ==
    /\ pc = "merge"
    /\ intensities' = [intensities EXCEPT ![peakCentreIndex] =
           MergedIntensity(intensities, peakCategory, peakCentreIndex,
                           peakLowestIndex, peakHighestIndex)]
    /\ peakLog' = Append(peakLog, [centre |-> peakCentreIndex,
                                   low |-> peakLowestIndex,
                                   high |-> peakHighestIndex])
    /\ pc' = "loop"
    /\ UNCHANGED <<peakCategory, intensityPeakCat, peakCentreIndex,
                   peakLowestIndex, peakHighestIndex, rtPC, widePeak,
                   framesLeft, framesRight, catAtIterStart, iterations,
                   paramVars>>

\* variant: no frame is set to 0
ZeroNonCentres_KeepAll(ints, cat) == ints

\* variant: only the "PF" frames are set to 0
ZeroNonCentres_PeakFramesOnly(ints, cat) ==
    [i \in 1..Len(ints) |-> IF cat[i] = "PF" THEN 0 ELSE ints[i]]

\* the intensities after "Set all non PC frames to 0"
ZeroNonCentres(ints, cat) ==
    [i \in 1..Len(ints) |-> IF cat[i] # "PC" THEN 0 ELSE ints[i]]

\* loop test false: set all non "PC" frames to 0
FinalZero ==
    /\ pc = "loop"
    /\ ~LoopCondition
    /\ intensities' = ZeroNonCentres(intensities, peakCategory)
    /\ pc' = "done"
    /\ UNCHANGED <<peakCategory, intensityPeakCat, peakCentreIndex,
                   peakLowestIndex, peakHighestIndex, rtPC, widePeak,
                   framesLeft, framesRight, catAtIterStart, iterations,
                   peakLog, paramVars>>

NextPeak ==
    \/ SkipFeature
    \/ BeginAnalysis
    \/ SelectCentre
    \/ CheckLeft
    \/ CheckRight
    \/ Relabel
    \/ GrowLeft
    \/ GrowRight
    \/ Merge
    \/ FinalZero

SpecPeak == InitPeak /\ [][NextPeak]_vars

SpecPeakDistinct == InitPeakDistinct /\ [][NextPeak]_vars

-----------------------------------------------------------------------------
(* __process_feature__: featureCluster.apply(__single_rep_feature__) over   *)
(* the columns of one feature cluster                                      *)

\* the replicate columns of the feature cluster; DummyColumn, a copy of the
\* first of them, is inserted as the first column
ClusterFrames ==
    {<<a, a, b>> : a \in ReplicateArrays, b \in ReplicateArrays}

DummyColumn == 1

InitApply ==
    /\ MzIdle
    /\ FeatIdle
    /\ ReapIdle
    /\ TolIdle
    /\ replicates \in ClusterFrames
    /\ origReplicates = replicates
    /\ pending = 1..Len(replicates)
    /\ curCol = 0
    /\ dummyCalls = 0
    /\ applyOrder = <<>>
    /\ pc = "apply"
    /\ intensities = <<>>
    /\ repRT \in RTArrays(Len(replicates[1]))
    /\ peakMinFoldDiff \in FoldDiffs
    /\ peakMaxRTWidth \in RTWidths
    /\ concatAllFrames \in BOOLEAN
    /\ peakCategory = <<>>
    /\ intensityPeakCat = <<>>
    /\ peakCentreIndex = 0
    /\ peakLowestIndex = 0
    /\ peakHighestIndex = 0
    /\ rtPC = 0
    /\ widePeak = "None"
    /\ framesLeft = TRUE
    /\ framesRight = TRUE
    /\ origIntensities = <<>>
    /\ catAtIterStart = <<>>
    /\ iterations = 0
    /\ peakLog = <<>>

peakLocals == <<peakCategory, intensityPeakCat, peakCentreIndex,
                peakLowestIndex, peakHighestIndex, rtPC, widePeak,
                framesLeft, framesRight>>

peakParams == <<repRT, peakMinFoldDiff, peakMaxRTWidth, concatAllFrames>>

\* apply() calls __single_rep_feature__ on a column: DummyColumn first,
\* possibly twice, then the sample replicates
ApplyColumn(k) ==
    /\ pc = "apply"
    /\ k \in pending
    /\ k # DummyColumn => DummyColumn \notin pending
    /\ curCol' = k
    /\ intensities' = replicates[k]
    /\ origIntensities' = replicates[k]
    /\ dummyCalls' = IF k = DummyColumn THEN dummyCalls + 1 ELSE dummyCalls
    /\ applyOrder' = Append(applyOrder, k)
    /\ catAtIterStart' = <<>>
    /\ iterations' = 0
    /\ peakLog' = <<>>
    /\ pc' = "start"
    /\ UNCHANGED <<replicates, pending, origReplicates, peakLocals,
                   peakParams, mzVars, featVars, reapVars,
                   tolVars>>

\* __single_rep_feature__ returns the series it was given; the first column
\* may be passed to it once more
ReturnSeries ==
    /\ pc = "done"
    /\ curCol # 0
    /\ replicates' = [replicates EXCEPT ![curCol] = intensities]
    /\ \/ pending' = pending \ {curCol}
       \/ curCol = DummyColumn /\ dummyCalls < 2 /\ pending' = pending
    /\ curCol' = 0
    /\ pc' = "apply"
    /\ UNCHANGED <<intensities, origIntensities, dummyCalls, origReplicates,
                   applyOrder, catAtIterStart, iterations, peakLog,
                   peakLocals, peakParams, mzVars, featVars, reapVars,
                   tolVars>>

\* every column has been passed on: apply() returns
ApplyReturns ==
    /\ pc = "apply"
    /\ pending = {}
    /\ pc' = "applied"
    /\ UNCHANGED <<intensities, origIntensities, catAtIterStart, iterations,
                   peakLog, peakLocals, peakParams, mzVars, otherVars>>

NextApply ==
    \/ \E k \in 1..Len(replicates) : ApplyColumn(k)
    \/ ReturnSeries
    \/ ApplyReturns
    \/ NextPeak

SpecApply == InitApply /\ [][NextApply]_vars

-----------------------------------------------------------------------------
(* __feat_peak_analysis__ as a function of the intensity array and the      *)
(* retention times: the result of the call, computed in one evaluation.    *)
(* The parameters are read from peakMinFoldDiff, peakMaxRTWidth and         *)
(* concatAllFrames.                                                         *)

\* "Check left side for peakiness": continue is TRUE when the iteration
\* ends with a solvent feature
LeftCheck(ints, c) ==
    IF 1 < c /\ ints[c - 1] # 0
    THEN IF FoldGE(ints[c - 1], ints[c])
         THEN IF 1 < c - 1 /\ ints[c - 2] # 0
              THEN IF FoldGE(ints[c - 2], ints[c - 1])
                   THEN [continue |-> TRUE, low |-> c, wide |-> "None",
                         frames |-> TRUE]
                   ELSE [continue |-> FALSE, low |-> c - 2, wide |-> "Left",
                         frames |-> TRUE]
              ELSE [continue |-> FALSE, low |-> c - 1, wide |-> "Left",
                    frames |-> FALSE]
         ELSE [continue |-> FALSE, low |-> c - 1, wide |-> "None",
               frames |-> TRUE]
    ELSE [continue |-> FALSE, low |-> c, wide |-> "None", frames |-> FALSE]

\* "Check right side for peakiness", given widePeak as the left check set it
RightCheck(ints, c, wide) ==
    LET n == Len(ints)
    IN  IF n > c /\ ints[c + 1] # 0
        THEN IF FoldGE(ints[c + 1], ints[c])
             THEN IF wide # "None"
                  THEN [continue |-> TRUE, high |-> c, wide |-> wide,
                        frames |-> TRUE]
                  ELSE IF n > c + 1 /\ ints[c + 2] # 0
                  THEN IF FoldGE(ints[c + 2], ints[c + 1])
                       THEN [continue |-> TRUE, high |-> c, wide |-> wide,
                             frames |-> TRUE]
                       ELSE [continue |-> FALSE, high |-> c + 2,
                             wide |-> "Right", frames |-> TRUE]
                  ELSE [continue |-> FALSE, high |-> c + 1, wide |-> wide,
                        frames |-> FALSE]
             ELSE [continue |-> FALSE, high |-> c + 1, wide |-> wide,
                   frames |-> TRUE]
        ELSE [continue |-> FALSE, high |-> c, wide |-> wide, frames |-> FALSE]

\* "Change 'rtPC' to be centre point of current peak"
CentreRT(rt, c, wide) ==
    IF wide = "Left" THEN (rt[c] + rt[c - 1]) \div 2
    ELSE IF wide = "Right" THEN (rt[c] + rt[c + 1]) \div 2
    ELSE rt[c]

\* "Complete left part of the peak": the categories and peakLowestIndex
\* the while loop ends with
RECURSIVE CompleteLeft(_, _, _, _, _)
CompleteLeft(ints, rt, cat, low, centreRT) ==
    LET prev == low - 1
    IN  IF 1 < low /\ ints[prev] # 0
        THEN IF Round3(centreRT - rt[prev]) <= HalfWidth
             THEN IF FoldGE(ints[prev], ints[low])
                  THEN [cat |-> IF FoldGE(ints[low], ints[prev])
                                THEN solvents_low_rt(cat, ints, prev)
                                ELSE cat,
                        low |-> low]
                  ELSE CompleteLeft(ints, rt,
                           [cat EXCEPT ![prev] =
                               IF cat[prev] = "PF" THEN "PS" ELSE "PF"],
                           prev, centreRT)
             ELSE [cat |-> IF cat[prev] = "--" /\ FoldGE(ints[low], ints[prev])
                           THEN solvents_low_rt(cat, ints, prev)
                           ELSE cat,
                   low |-> low]
        ELSE [cat |-> cat, low |-> low]

\* "Complete right part of the peak"
RECURSIVE CompleteRight(_, _, _, _, _)
CompleteRight(ints, rt, cat, high, centreRT) ==
    LET next == high + 1
    IN  IF Len(ints) > high /\ ints[next] # 0
        THEN IF Round3(rt[next] - centreRT) <= HalfWidth
             THEN IF FoldGE(ints[next], ints[high])
                  THEN [cat |-> IF FoldGE(ints[high], ints[next])
                                THEN solvents_high_rt(cat, ints, next)
                                ELSE cat,
                        high |-> high]
                  ELSE CompleteRight(ints, rt,
                           [cat EXCEPT ![next] =
                               IF cat[next] = "PF" THEN "PS" ELSE "PF"],
                           next, centreRT)
             ELSE [cat |-> IF cat[next] = "--" /\ FoldGE(ints[high], ints[next])
                           THEN solvents_high_rt(cat, ints, next)
                           ELSE cat,
                   high |-> high]
        ELSE [cat |-> cat, high |-> high]

\* the while loop of __feat_peak_analysis__ from the state (ints, cat, ipc)
\* and the final "Set all non PC frames to 0"
RECURSIVE CategoriseLoop(_, _, _, _)
CategoriseLoop(ints, rt, cat, ipc) ==
    IF Cardinality(Uncategorised(cat))
           > Cardinality({i \in 1..Len(ints) : ints[i] = 0})
    THEN LET ipc1 == [i \in 1..Len(ints) |->
                        IF cat[i] # "--" THEN -1 ELSE ipc[i]]
             c == ArgMax(ipc1)
             cat1 == [cat EXCEPT ![c] = "PC"]
             left == LeftCheck(ints, c)
             right == RightCheck(ints, c, left.wide)
         IN  IF left.continue \/ right.continue
             THEN CategoriseLoop(ints, rt, SolventFeature(cat1, ints, c), ipc1)
             ELSE LET centreRT == CentreRT(rt, c, right.wide)
                      cat2 == RelabelRange(cat1, left.low, right.high)
                      grownL == IF left.frames
                                THEN CompleteLeft(ints, rt, cat2, left.low,
                                                  centreRT)
                                ELSE [cat |-> cat2, low |-> left.low]
                      grownR == IF right.frames
                                THEN CompleteRight(ints, rt, grownL.cat,
                                                   right.high, centreRT)
                                ELSE [cat |-> grownL.cat, high |-> right.high]
                      merged == [ints EXCEPT ![c] =
                                    MergedIntensity(ints, grownR.cat, c,
                                                    grownL.low, grownR.high)]
                  IN  CategoriseLoop(merged, rt, grownR.cat, ipc1)
    ELSE ZeroNonCentres(ints, cat)

feat_peak_analysis(ints, rt) ==
    CategoriseLoop(ints, rt, [i \in 1..Len(ints) |-> "--"], ints)

\* the intensities __single_rep_feature__ returns
single_rep_feature(ints, rt) ==
    IF CountNonzero(ints) > 1 THEN feat_peak_analysis(ints, rt) ELSE ints

-----------------------------------------------------------------------------
(* _utils.mz_delta *)

\* round(fixederr + mz * ppmerr * 1e-6, 5)
mz_delta(mz, fixederr, ppmerr) ==
    DeltaGrid * RoundHalfEven(fixederr * MzScale + mz * ppmerr,
                              MzScale * DeltaGrid)

-----------------------------------------------------------------------------
(* _utils.mz_tol_range *)

\* (round(mz - delta, 5), round(mz + delta, 5))
mz_tol_range(mz, fixederr, ppmerr) ==
    LET delta == mz_delta(mz, fixederr, ppmerr)
    IN  <<DeltaGrid * RoundHalfEven(mz - delta, DeltaGrid),
          DeltaGrid * RoundHalfEven(mz + delta, DeltaGrid)>>

\* m/z values as the table keeps them: 6 decimals
TolMzs == {m + d : m \in MzStarts, d \in 0..MaxMzOffset}

notTol == <<peakVars, mzVars, featVars, applyVars, reapVars>>

InitTol ==
    /\ PeakIdle
    /\ MzIdle
    /\ FeatIdle
    /\ ApplyIdle
    /\ ReapIdle
    /\ tolpc = "call"
    /\ tolMz \in TolMzs
    /\ tolFixedErr \in TolFixedErrors
    /\ tolPPMErr \in PPMErrors
    /\ tolRange = <<>>

\* the call of mz_tol_range
TolRange ==
    /\ tolpc = "call"
    /\ tolRange' = mz_tol_range(tolMz, tolFixedErr, tolPPMErr)
    /\ tolpc' = "done"
    /\ UNCHANGED <<tolMz, tolFixedErr, tolPPMErr, notTol>>

NextTol == TolRange

SpecTol == InitTol /\ [][NextTol]_vars

-----------------------------------------------------------------------------
(* Clustering.cluster_by_mz *)

numRowsData == Len(mzTable)

Row(i) == mzTable[i + 1]

Delta(i) == mz_delta(Row(i), mzFixedError, mzPPMError)

\* auxData['mzDiffNextFrame'] at row i
mzDiffNextFrame(i) == Row(i + 1) - Row(i)

\* the m/z-sorted tables: short ones, and ones of sectionMinSize - 1 evenly
\* spaced frames followed by a tail of frames at chosen gaps
PadFrames == sectionMinSize - 1

SmallTables ==
    {FromGaps(s, g) : s \in MzStarts,
        g \in UNION {[1..(n - 1) -> GapVals] : n \in 1..MaxSmallTable}}

LargeTables ==
    UNION {{FromGaps(s, [i \in 1..(PadFrames - 1 + t) |->
                        IF i < PadFrames THEN p ELSE g[i - PadFrames + 1]]) :
               s \in MzStarts, p \in PadGaps, g \in [1..t -> GapVals]} :
           t \in 1..MaxTail}

\* a table without frames
EmptyTable == <<>>

MzTables == {EmptyTable} \cup SmallTables \cup LargeTables

\* the state when cluster_by_mz is called with one of the tables
InitMzFrom(tables) ==
    /\ PeakIdle
    /\ OtherIdle
    /\ mzpc = "sectioning"
    /\ mzTable \in tables
    /\ mzFixedError \in FixedErrors
    /\ mzPPMError \in PPMErrors
    /\ mzClusterSectionID = [i \in 1..Len(mzTable) |-> 0]
    /\ sectionBegin = 0
    /\ clusterSectionID = 1
    /\ mzClusterID = <<>>
    /\ currentMaxClusterID = 0
    /\ sectionID = 0
    /\ flatCluster = [i \in 1..Len(mzTable) |-> <<0, 0>>]
    /\ fclusterLabels = <<>>

InitMz == InitMzFrom(MzTables)

Ascending(v) == \A i \in 1..(Len(v) - 1) : v[i] <= v[i + 1]

\* tables a caller may pass that are not sorted by m/z: the short tables
\* with their rows in another order
UnsortedTables ==
    {u \in UNION {{[i \in 1..Len(t) |-> t[f[i]]] :
                      f \in {g \in [1..Len(t) -> 1..Len(t)] :
                                \A a, b \in 1..Len(t) : g[a] = g[b] => a = b}} :
                  t \in SmallTables} :
        ~Ascending(u)}

InitMzAnyOrder == InitMzFrom(MzTables \cup UnsortedTables)

\* variant: the gap is compared with the delta of the current row only
BoundaryTest_CurrentDeltaOnly(sectionEnd) ==
    mzDiffNextFrame(sectionEnd) > Delta(sectionEnd)

\* the test that closes a cluster section after row sectionEnd
BoundaryTest(sectionEnd) ==
    mzDiffNextFrame(sectionEnd) > Delta(sectionEnd) + Delta(sectionEnd + 1)

\* the inner while loop: the row at which the section is closed
RECURSIVE SectionEndFrom(_)
SectionEndFrom(sectionEnd) ==
    IF sectionEnd < numRowsData - 1
    THEN IF BoundaryTest(sectionEnd)
         THEN sectionEnd
         ELSE SectionEndFrom(sectionEnd + 1)
    ELSE sectionEnd

\* auxData.iloc[begin : end, 1] = id
AssignSection(ids, begin, end, id) ==
    [i \in 1..Len(ids) |->
        IF begin <= i - 1 /\ i - 1 < end THEN id ELSE ids[i]]

mzInputs == <<mzTable, mzFixedError, mzPPMError>>

\* one iteration of the outer while loop: close a cluster section
CloseSection ==
    /\ mzpc = "sectioning"
    /\ numRowsData - sectionBegin >= sectionMinSize
    /\ LET sectionEnd == SectionEndFrom(sectionBegin + sectionMinSize) + 1
       IN  /\ mzClusterSectionID' = AssignSection(mzClusterSectionID,
                                        sectionBegin, sectionEnd,
                                        clusterSectionID)
           /\ sectionBegin' = sectionEnd
    /\ clusterSectionID' = clusterSectionID + 1
    /\ UNCHANGED <<mzpc, mzClusterID, currentMaxClusterID, sectionID,
                   flatCluster, fclusterLabels, mzInputs, peakVars, otherVars>>

\* the remaining masses form another cluster section, or the last ID was
\* not used; the mzClusterID column is added
LastSection ==
    /\ mzpc = "sectioning"
    /\ ~(numRowsData - sectionBegin >= sectionMinSize)
    /\ IF sectionBegin < numRowsData
       THEN /\ mzClusterSectionID' = AssignSection(mzClusterSectionID,
                                         sectionBegin, numRowsData,
                                         clusterSectionID)
            /\ UNCHANGED clusterSectionID
       ELSE /\ clusterSectionID' = clusterSectionID - 1
            /\ UNCHANGED mzClusterSectionID
    /\ mzClusterID' = [i \in 1..numRowsData |-> 0]
    /\ currentMaxClusterID' = 0
    /\ sectionID' = 1
    /\ mzpc' = "clustering"
    /\ UNCHANGED <<sectionBegin, flatCluster, fclusterLabels, mzInputs,
                   peakVars, otherVars>>

SectionRows(sid) == {i \in 1..numRowsData : mzClusterSectionID[i] = sid}

MinOf(S) == CHOOSE x \in S : \A y \in S : x <= y

\* the cut-off of a section: 2 * mz_delta of its maximum m/z
CutOff(sid) ==
    2 * mz_delta(MaxOf({mzTable[i] : i \in SectionRows(sid)}),
                 mzFixedError, mzPPMError)

RemoveAt(s, k) == [i \in 1..(Len(s) - 1) |-> IF i < k THEN s[i] ELSE s[i + 1]]

\* hierarchy.complete + hierarchy.fcluster(..., 'distance') over the sorted
\* masses v: clusters are runs of v, held as the sequence of their last
\* positions.  The two clusters at the smallest complete-linkage distance
\* (the span of their union) are merged while that distance is <= cutoff;
\* equal distances may be merged in any order.
RECURSIVE CompleteLinkage(_, _, _)
CompleteLinkage(v, ends, cutoff) ==
    LET m == Len(ends)
        first(k) == IF k = 1 THEN 1 ELSE ends[k - 1] + 1
        span(k) == v[ends[k + 1]] - v[first(k)]
        spans == {span(k) : k \in 1..(m - 1)}
    IN  IF m = 1 \/ MinOf(spans) > cutoff
        THEN {ends}
        ELSE UNION {CompleteLinkage(v, RemoveAt(ends, k), cutoff) :
                       k \in {j \in 1..(m - 1) : span(j) = MinOf(spans)}}

FlatClusters(v, cutoff) ==
    CompleteLinkage(v, [i \in 1..Len(v) |-> i], cutoff)

\* rank (in m/z order) of the cluster holding position p
ClusterRank(ends, p) == MinOf({k \in 1..Len(ends) : ends[k] >= p})

\* the labels fcluster may give k clusters: the numbers 1..k in any order
\* (for many clusters only ascending and descending order are explored)
LabelOrders(k) ==
    IF k <= MaxPermClusters
    THEN {f \in [1..k -> 1..k] : \A a, b \in 1..k : f[a] = f[b] => a = b}
    ELSE {[a \in 1..k |-> a], [a \in 1..k |-> k + 1 - a]}

\* the place each position takes when the masses are put in ascending
\* order (equal masses in the order of their positions)
MzPlaces(v) ==
    IF Ascending(v) THEN [p \in 1..Len(v) |-> p]
    ELSE [p \in 1..Len(v) |->
             Cardinality({q \in 1..Len(v) :
                             v[q] < v[p] \/ (v[q] = v[p] /\ q <= p)})]

\* the masses in ascending order: pdist and complete work on the distances
\* between the masses, whatever the order of the rows
InMzOrder(v) ==
    IF Ascending(v) THEN v
    ELSE LET place == MzPlaces(v)
         IN  [r \in 1..Len(v) |-> v[CHOOSE p \in 1..Len(v) : place[p] = r]]

\* the cluster IDs given to the rows of a section: vectorMZ holds its
\* masses in ascending order and place[p] is the position in vectorMZ of
\* the section's p-th row
ClusterRows(rows, lo, vectorMZ, place) ==
    IF Len(vectorMZ) = 1
    THEN /\ currentMaxClusterID' = currentMaxClusterID + 1
         /\ mzClusterID' = [mzClusterID EXCEPT ![lo] = currentMaxClusterID + 1]
         /\ flatCluster' = [flatCluster EXCEPT ![lo] = <<sectionID, 1>>]
    ELSE \E ends \in FlatClusters(vectorMZ, CutOff(sectionID)) :
         \E order \in LabelOrders(Len(ends)) :
            /\ mzClusterID' = [i \in 1..numRowsData |->
                  IF i \in rows
                  THEN order[ClusterRank(ends, place[i - lo + 1])]
                         + currentMaxClusterID
                  ELSE mzClusterID[i]]
            /\ flatCluster' = [i \in 1..numRowsData |->
                  IF i \in rows
                  THEN <<sectionID, ClusterRank(ends, place[i - lo + 1])>>
                  ELSE flatCluster[i]]
            /\ currentMaxClusterID' = currentMaxClusterID + Len(ends)

\* one iteration of the loop over the cluster sections
ClusterSection ==
    /\ mzpc = "clustering"
    /\ sectionID <= clusterSectionID
    /\ LET rows == SectionRows(sectionID)
           lo == MinOf(rows)
           masses == [p \in 1..Cardinality(rows) |-> mzTable[lo + p - 1]]
       IN  ClusterRows(rows, lo, InMzOrder(masses), MzPlaces(masses))
    /\ sectionID' = sectionID + 1
    /\ UNCHANGED <<mzpc, mzClusterSectionID, sectionBegin, clusterSectionID,
                   fclusterLabels, mzInputs, peakVars, otherVars>>

\* "Renumber Cluster IDs based on their appearance in the dataframe": the
\* loop writes clusterIDs[index] before it compares it with the next row
RECURSIVE RenumberLoop(_, _, _)
RenumberLoop(clusterIDs, index, id) ==
    IF index < Len(clusterIDs) - 1
    THEN LET written == [clusterIDs EXCEPT ![index + 1] = id]
         IN  RenumberLoop(written, index + 1,
                          IF written[index + 1] # written[index + 2]
                          THEN id + 1 ELSE id)
    ELSE [clusterIDs EXCEPT ![Len(clusterIDs)] = id]

RenumberClusterIDs(clusterIDs) == RenumberLoop(clusterIDs, 0, 1)

\* all sections clustered: the renumbering pass.  Its last statement,
\* clusterIDs[numRowsData - 1] = id, raises IndexError on an array without
\* elements.
Renumber ==
    /\ mzpc = "clustering"
    /\ sectionID > clusterSectionID
    /\ fclusterLabels' = mzClusterID
    /\ IF numRowsData = 0
       THEN /\ mzpc' = "IndexError"
            /\ UNCHANGED mzClusterID
       ELSE /\ mzClusterID' = RenumberClusterIDs(mzClusterID)
            /\ mzpc' = "done"
    /\ UNCHANGED <<mzClusterSectionID, sectionBegin, clusterSectionID,
                   currentMaxClusterID, sectionID, flatCluster, mzInputs,
                   peakVars, otherVars>>

NextMz ==
    \/ CloseSection
    \/ LastSection
    \/ ClusterSection
    \/ Renumber

SpecMz == InitMz /\ [][NextMz]_vars

SpecMzAnyOrder == InitMzAnyOrder /\ [][NextMz]_vars

-----------------------------------------------------------------------------
(* Clustering.cluster_by_features *)

\* the table cluster_by_mz leaves: sorted by (m/z, RT), the mzClusterID
\* column starting at 1 and growing by 0 or 1 from one row to the next
FeatRows == [mzClusterID : 1..MaxMzClusters, rt : FeatRTs, mz : FeatMzs]

FeatTables ==
    UNION {{t \in [1..n -> FeatRows] :
               /\ t[1].mzClusterID = 1
               /\ \A i \in 1..(n - 1) :
                     /\ \/ t[i].mz < t[i + 1].mz
                        \/ t[i].mz = t[i + 1].mz /\ t[i].rt <= t[i + 1].rt
                     /\ t[i + 1].mzClusterID - t[i].mzClusterID \in {0, 1}} :
           n \in 1..MaxFeatRows}

\* cluster_by_mz and the per-replicate pass not running
notFeat == <<peakVars, mzVars, applyVars, reapVars, tolVars>>

InitFeat ==
    /\ PeakIdle
    /\ MzIdle
    /\ ApplyIdle
    /\ ReapIdle
    /\ TolIdle
    /\ featpc = "sort"
    /\ featData \in FeatTables
    /\ maxRTDiffAdjFrame \in RTDiffs
    /\ featureClusterIDs = <<>>
    /\ featIndex = 0
    /\ featID = 0

\* the order of by=['mzClusterID', rtCol, mzCol]
FeatKeyLE(a, b) ==
    \/ a.mzClusterID < b.mzClusterID
    \/ /\ a.mzClusterID = b.mzClusterID
       /\ \/ a.rt < b.rt
          \/ a.rt = b.rt /\ a.mz <= b.mz

\* a row put into sorted rows after every row that is not greater (stable)
RECURSIVE InsertRow(_, _)
InsertRow(sorted, row) ==
    IF Len(sorted) = 0 THEN <<row>>
    ELSE IF FeatKeyLE(sorted[Len(sorted)], row)
         THEN Append(sorted, row)
         ELSE Append(InsertRow(SubSeq(sorted, 1, Len(sorted) - 1), row),
                     sorted[Len(sorted)])

\* data.sort_values(by=['mzClusterID', rtCol, mzCol], kind='mergesort')
RECURSIVE sort_values(_)
sort_values(rows) ==
    IF Len(rows) = 0 THEN <<>>
    ELSE InsertRow(sort_values(SubSeq(rows, 1, Len(rows) - 1)),
                   rows[Len(rows)])

\* re-sort the dataframe, add the FeatureClusterID column, id = 1
SortForFeatures ==
    /\ featpc = "sort"
    /\ featData' = sort_values(featData)
    /\ featureClusterIDs' = [i \in 1..Len(featData) |-> 0]
    /\ featID' = 1
    /\ featIndex' = 0
    /\ featpc' = "loop"
    /\ UNCHANGED <<maxRTDiffAdjFrame, notFeat>>

\* auxData['TimeDiff'] at row index
timeDiffs(index) == featData[index + 2].rt - featData[index + 1].rt

\* variant: a gap equal to the threshold also starts a new feature cluster
FeatureBoundary_AtLeast(index) ==
    \/ featData[index + 1].mzClusterID # featData[index + 2].mzClusterID
    \/ timeDiffs(index) >= maxRTDiffAdjFrame

\* the test that raises id after row index
FeatureBoundary(index) ==
    \/ featData[index + 1].mzClusterID # featData[index + 2].mzClusterID
    \/ timeDiffs(index) > maxRTDiffAdjFrame

\* one iteration of  for index in range(0, numRowsData - 1)
FeatLoopStep ==
    /\ featpc = "loop"
    /\ featIndex < Len(featData) - 1
    /\ featureClusterIDs' = [featureClusterIDs EXCEPT ![featIndex + 1] = featID]
    /\ featID' = IF FeatureBoundary(featIndex) THEN featID + 1 ELSE featID
    /\ featIndex' = featIndex + 1
    /\ UNCHANGED <<featpc, featData, maxRTDiffAdjFrame, notFeat>>

\* featureClusterIDs[numRowsData - 1] = id
FeatLoopEnd ==
    /\ featpc = "loop"
    /\ ~(featIndex < Len(featData) - 1)
    /\ featureClusterIDs' = [featureClusterIDs EXCEPT ![Len(featData)] = featID]
    /\ featpc' = "done"
    /\ UNCHANGED <<featData, maxRTDiffAdjFrame, featIndex, featID, notFeat>>

NextFeat ==
    \/ SortForFeatures
    \/ FeatLoopStep
    \/ FeatLoopEnd

SpecFeat == InitFeat /\ [][NextFeat]_vars

-----------------------------------------------------------------------------
(* LFDataFrame.drop_empty_frames, as process_features calls it (means is   *)
(* False).  The columns are: id, m/z, two intensity columns that are        *)
(* sample replicates or further columns, and a last column after the       *)
(* samples.                                                                *)

\* the rows process_features may leave: row k has identifier k
ReapRowsOf(k) == {<<k, m, a, b, q>> : m \in ReapMzs, a \in ReapIntensities,
                                      b \in ReapIntensities,
                                      q \in ReapIntensities}

\* the index is 0..n-1 when process_features calls drop_empty_frames
ReapFrames ==
    UNION {{[i \in 1..n |-> [label |-> i - 1, cols |-> c[i]]] :
               c \in {d \in [1..n -> UNION {ReapRowsOf(k) : k \in 1..n}] :
                         \A i \in 1..n : d[i][1] = i}} :
           n \in 0..MaxReapRows}

\* (firstSampleIndex, numSamples, numTechReps)
ReapParameters == {<<3, 1, 1>>, <<3, 2, 1>>, <<3, 1, 2>>}

notReap == <<peakVars, mzVars, featVars, applyVars, tolVars>>

InitReap ==
    /\ PeakIdle
    /\ MzIdle
    /\ FeatIdle
    /\ ApplyIdle
    /\ TolIdle
    /\ frame \in ReapFrames
    /\ \E q \in ReapParameters :
          /\ firstSampleIndex = q[1]
          /\ numSamples = q[2]
          /\ numTechReps = q[3]
    /\ reapCalls = 0
    /\ frameBefore = frame
    /\ frameAfterFirst = <<>>

firstIndex == firstSampleIndex - 1

lastIndex == firstIndex + (numSamples * numTechReps)

\* the positions (0-based) of the columns of  iloc[:, firstIndex : lastIndex]
SlicedColumns(cols) == {p \in firstIndex..(lastIndex - 1) : p < Len(cols)}

\* variant: a row is empty when any sliced column is 0
IsEmptyFrame_Any(cols) == \E p \in SlicedColumns(cols) : cols[p + 1] = 0

\* self.iloc[:, firstIndex : lastIndex].eq(0).all(axis=1) for one row
IsEmptyFrame(cols) == \A p \in SlicedColumns(cols) : cols[p + 1] = 0

\* variant: only the first empty frame is reported
indices_FirstOnly(df) ==
    LET rows == {i \in 1..Len(df) : IsEmptyFrame(df[i].cols)}
    IN  IF rows = {} THEN {} ELSE {df[MinOf(rows)].label}

\* self[emptyFrames].index.tolist(): the labels of the empty frames
indices(df) == {df[i].label : i \in {j \in 1..Len(df) :
                                          IsEmptyFrame(df[j].cols)}}

\* DataFrame.drop(labels=..., axis=0): every row with one of the labels goes
RECURSIVE DropLabels(_, _)
DropLabels(df, labels) ==
    IF Len(df) = 0 THEN <<>>
    ELSE LET rest == DropLabels(SubSeq(df, 1, Len(df) - 1), labels)
         IN  IF df[Len(df)].label \in labels
             THEN rest
             ELSE Append(rest, df[Len(df)])

\* reset_index(drop=True)
ResetIndex(df) == [i \in 1..Len(df) |-> [df[i] EXCEPT !.label = i - 1]]

drop_empty_frames(df) ==
    IF indices(df) # {}
    THEN ResetIndex(DropLabels(df, indices(df)))
    ELSE df

\* one call of drop_empty_frames
DropEmptyFrames ==
    /\ reapCalls < 2
    /\ frame' = drop_empty_frames(frame)
    /\ reapCalls' = reapCalls + 1
    /\ frameAfterFirst' = IF reapCalls = 0 THEN frame' ELSE frameAfterFirst
    /\ UNCHANGED <<firstSampleIndex, numSamples, numTechReps, frameBefore,
                   notReap>>

NextReap == DropEmptyFrames

SpecReap == InitReap /\ [][NextReap]_vars

-----------------------------------------------------------------------------
(* Fairness: the pass is one sequential call, so it keeps taking steps *)

\* retention times whose gaps alternate between two values
AlternatingRTArrays(n) ==
    {FromGaps(s, [i \in 1..(n - 1) |-> IF i % 2 = 1 THEN a ELSE b]) :
        s \in RTStarts, a \in RTGaps, b \in RTGaps}

InitPeakAlternating ==
    /\ InitPeak
    /\ repRT \in AlternatingRTArrays(Len(intensities))

FairSpecPeak ==
    InitPeakAlternating /\ [][NextPeak]_vars /\ WF_vars(NextPeak)

-----------------------------------------------------------------------------
(* Properties of the per-replicate pass *)

\* the pass went through __feat_peak_analysis__ and has returned
PassEnded == pc = "done" /\ Len(peakCategory) > 0

NonZeroFrames == {i \in 1..Len(intensities) : intensities[i] # 0}

CentreFrames == {i \in 1..Len(peakCategory) : peakCategory[i] = "PC"}

FoldIsTwo == peakMinFoldDiff = [num |-> 2, den |-> 1]

\* C1 as stated: frames [50, 48] with peakMinFoldDiff = 2.0 are both
\* tagged SolventFrame, both end at 0 and no PeakCentre is emitted.
C1_BothSolvent ==
    (PassEnded /\ origIntensities = ScenarioC /\ FoldIsTwo)
        => /\ peakCategory = <<"SF", "SF">>
           /\ intensities = <<0, 0>>
           /\ CentreFrames = {}

\* C1 (amended): frames [50, 48] with peakMinFoldDiff = 2.0 form one wide
\* peak: frame 0 is the PeakCentre and ends with 50 + 48 = 98 under either
\* merge policy, frame 1 is its PeakFrame and ends at 0.
C1_WidePeak ==
    (PassEnded /\ origIntensities = ScenarioC /\ FoldIsTwo)
        => /\ peakCategory = <<"PC", "PF">>
           /\ intensities = <<98, 0>>
           /\ peakLog = <<[centre |-> 1, low |-> 1, high |-> 2]>>

C1_Witness ==
    /\ PassEnded
    /\ origIntensities = ScenarioC
    /\ FoldIsTwo
    /\ iterations = 1

\* C3 as stated: after the pass at most one frame of the array is
\* non-zero.
C3_AtMostOneNonZero ==
    PassEnded => Cardinality(NonZeroFrames) <= 1

\* C3 (amended): after the pass every non-zero frame is the PeakCentre of
\* a peak finalised during the pass, so there is at most one non-zero frame
\* per finalised peak (a pass may finalise several peaks) and every other
\* frame is zero.
C3_OneNonZeroPerPeak ==
    PassEnded =>
        /\ \A i \in NonZeroFrames :
              \E k \in 1..Len(peakLog) : peakLog[k].centre = i
        /\ Cardinality(NonZeroFrames) <= Len(peakLog)

C3_Witness ==
    /\ PassEnded
    /\ Len(peakLog) = 2
    /\ Cardinality(NonZeroFrames) = 2
    /\ \E i \in 1..Len(intensities) :
          origIntensities[i] # 0 /\ intensities[i] = 0

\* C4: when the pass ends, every frame whose category is not PeakCentre
\* has intensity 0.
C4_NonCentreIsZero ==
    PassEnded =>
        \A i \in 1..Len(intensities) :
            peakCategory[i] # "PC" => intensities[i] = 0

C4_Witness ==
    /\ PassEnded
    /\ \E i, j \in 1..Len(intensities) :
          /\ peakCategory[i] = "SF" /\ origIntensities[i] # 0
          /\ peakCategory[j] = "PF" /\ origIntensities[j] # 0
    /\ CentreFrames # {}

\* the pass found a single peak and its range holds every non-zero frame
SinglePeakCoversAll ==
    /\ Len(peakLog) = 1
    /\ \A i \in 1..Len(origIntensities) :
          origIntensities[i] # 0 => i \in peakLog[1].low..peakLog[1].high

\* C8: with concatAllFrames, when the pass finds a single peak whose range
\* contains every non-zero frame, the PeakCentre ends with the sum of all
\* the original intensities.
C8_Conservation ==
    (PassEnded /\ concatAllFrames /\ SinglePeakCoversAll)
        => intensities[peakLog[1].centre] = SumSeq(origIntensities)

C8_Witness ==
    /\ PassEnded
    /\ concatAllFrames
    /\ SinglePeakCoversAll
    /\ CountNonzero(origIntensities) >= 3
    /\ peakLog[1].low < peakLog[1].centre
    /\ peakLog[1].centre < peakLog[1].high

ScenarioBInput ==
    /\ origIntensities = ScenarioB
    /\ repRT = <<20000, 21000, 22000, 23000, 24000>>
    /\ peakMaxRTWidth = 6000
    /\ FoldIsTwo
    /\ ~concatAllFrames

\* C9: Scenario B. Frame index 1 (the second frame) is the only
\* PeakCentre, it ends with 100 plus the largest PeakFrame intensity of
\* the peak (90), and every other frame ends at 0.
C9_ScenarioB ==
    (PassEnded /\ ScenarioBInput)
        => /\ CentreFrames = {2}
           /\ Len(peakLog) = 1
           /\ intensities[2] = 100 + MaxOf({origIntensities[i] :
                  i \in {j \in peakLog[1].low..peakLog[1].high :
                            peakCategory[j] = "PF"}})
           /\ intensities = <<0, 190, 0, 0, 0>>

C9_Witness ==
    /\ PassEnded
    /\ ScenarioBInput
    /\ peakCategory = <<"PF", "PC", "PF", "PF", "--">>

\* an iteration of the categorisation loop has just ended
IterationEnded == pc = "loop" /\ iterations > 0

IterationProgress ==
    IterationEnded =>
        \E i \in 1..Len(peakCategory) :
            /\ catAtIterStart[i] = "--"
            /\ origIntensities[i] # 0
            /\ peakCategory[i] # "--"

NoneLeftUncategorised ==
    PassEnded =>
        \A i \in 1..Len(peakCategory) :
            origIntensities[i] # 0 => peakCategory[i] # "--"

\* C10: the categorisation loop terminates: every iteration moves at least
\* one non-zero Uncategorized frame to another category, at loop exit no
\* frame with non-zero original intensity is Uncategorized, and the pass
\* reaches its end.
C10_LoopTerminates ==
    /\ [](IterationProgress /\ NoneLeftUncategorised)
    /\ <>(pc = "done")

C10_Witness ==
    /\ PassEnded
    /\ iterations >= 2
    /\ CentreFrames # {}
    /\ \E i \in 1..Len(peakCategory) : peakCategory[i] = "SF"

\* the pass, taken step by step, ends with the intensities that
\* __single_rep_feature__ computes in one evaluation
PassMatchesFunction ==
    pc = "done" => intensities = single_rep_feature(origIntensities, repRT)

OrigNonZeroFrames ==
    {i \in 1..Len(origIntensities) : origIntensities[i] # 0}

\* C13: an intensity array with fewer than 2 non-zero frames is never
\* changed by the pass: at every point its intensities are the original
\* ones, no frame has a category and no peak is finalised.
C13_FewNonZeroUnchanged ==
    Cardinality(OrigNonZeroFrames) < 2 =>
        /\ intensities = origIntensities
        /\ peakCategory = <<>>
        /\ peakLog = <<>>

\* the pass has returned for an array of several frames of which exactly
\* one is non-zero
C13_Witness ==
    /\ pc = "done"
    /\ Len(origIntensities) > 1
    /\ Cardinality(OrigNonZeroFrames) = 1
    /\ intensities = origIntensities

Reverse(s) == [i \in 1..Len(s) |-> s[Len(s) + 1 - i]]

\* the retention times of the frames taken in the opposite order, reflected
\* so that they increase again and keep every gap
Reflect(rt) == [i \in 1..Len(rt) |-> rt[1] + rt[Len(rt)] - rt[Len(rt) + 1 - i]]

NonZeroPairwiseDistinct(ints) ==
    \A i, j \in 1..Len(ints) :
        (i # j /\ ints[i] # 0 /\ ints[j] # 0) => ints[i] # ints[j]

\* C15: for an array whose non-zero intensities are pairwise distinct, the
\* pass over the reversed array with reflected retention times ends with the
\* reversal of the intensities the pass over the array ends with.
C15_LeftRightSymmetry ==
    (pc = "done" /\ NonZeroPairwiseDistinct(origIntensities)) =>
        Reverse(single_rep_feature(Reverse(origIntensities), Reflect(repRT)))
            = intensities

SampleColumns == 1..Len(replicates) \ {DummyColumn}

\* C14: when apply() has returned for a feature cluster, every replicate
\* column holds the intensities __single_rep_feature__ computes from that
\* column's original intensities, the retention times and the parameters
\* alone, whatever the other columns held and in whatever order the columns
\* were processed.
C14_ColumnsIndependent ==
    pc = "applied" =>
        \A k \in SampleColumns :
            replicates[k] = single_rep_feature(origReplicates[k], repRT)

\* apply() has returned for a cluster whose two replicates differ, were both
\* changed by the pass and were processed last column first
C14_Witness ==
    /\ pc = "applied"
    /\ origReplicates[2] # origReplicates[3]
    /\ replicates[2] # origReplicates[2]
    /\ replicates[3] # origReplicates[3]
    /\ replicates[2] # replicates[3]
    /\ \E i, j \in 1..Len(applyOrder) :
          i < j /\ applyOrder[i] = 3 /\ applyOrder[j] = 2

-----------------------------------------------------------------------------
(* Properties of cluster_by_mz *)

MzDone == mzpc = "done"

Frames == 1..Len(mzTable)

SameSection(i, j) == mzClusterSectionID[i] = mzClusterSectionID[j]

DeltaOf(i) == mz_delta(mzTable[i], mzFixedError, mzPPMError)

\* a section boundary lies between frame i and frame i + 1
BoundaryAfter(i) ==
    /\ i \in Frames /\ i + 1 \in Frames
    /\ mzClusterSectionID[i] # mzClusterSectionID[i + 1]

\* C2: the renumbering pass changes labels only: two frames end with the
\* same mzClusterID exactly when fcluster put them in the same cluster,
\* and the final IDs are 1..k in ascending m/z order of each cluster's
\* first frame.
C2_RenumberKeepsMembership ==
    MzDone =>
        /\ \A i, j \in Frames :
              (mzClusterID[i] = mzClusterID[j])
                  <=> (flatCluster[i] = flatCluster[j])
        /\ mzClusterID[1] = 1
        /\ \A i \in Frames : i + 1 \in Frames =>
              mzClusterID[i + 1] =
                  IF flatCluster[i + 1] = flatCluster[i]
                  THEN mzClusterID[i] ELSE mzClusterID[i] + 1

\* C5: two frames of one section whose m/z differ by less than the smaller
\* of their two mz_delta end with the same mzClusterID.
C5_Completeness ==
    MzDone =>
        \A i, j \in Frames :
            (/\ i < j
             /\ SameSection(i, j)
             /\ mzTable[j] - mzTable[i] < MinOf({DeltaOf(i), DeltaOf(j)}))
                => mzClusterID[i] = mzClusterID[j]

\* C6: no two frames of one section whose m/z differ by more than the
\* section's cut-off distance end with the same mzClusterID.
C6_Soundness ==
    MzDone =>
        \A i, j \in Frames :
            (/\ i < j
             /\ SameSection(i, j)
             /\ mzTable[j] - mzTable[i] > CutOff(mzClusterSectionID[i]))
                => mzClusterID[i] # mzClusterID[j]

\* a cut-off is applied only in sections of more than one frame
ExceedsCutOff(gap, sid) ==
    Cardinality(SectionRows(sid)) > 1 => gap > CutOff(sid)

\* the complete-linkage run over the two sections around the boundary after
\* frame i, cut at 2 * mz_delta of their maximum m/z, may merge a pair of
\* frames from different sections
JointRunMergesAcross(i) ==
    LET rows == SectionRows(mzClusterSectionID[i])
                    \cup SectionRows(mzClusterSectionID[i + 1])
        lo == MinOf(rows)
        v == [p \in 1..Cardinality(rows) |-> mzTable[lo + p - 1]]
        cutoff == 2 * mz_delta(v[Len(v)], mzFixedError, mzPPMError)
    IN  \E ends \in FlatClusters(v, cutoff) :
            ClusterRank(ends, i - lo + 1) = ClusterRank(ends, i - lo + 2)

\* C7 as stated: at every section boundary the gap exceeds the cut-off
\* distance applied in each of the two adjoining sections, and no pair of
\* frames from different sections would be merged by the complete-linkage
\* run over both sections together.
C7_BoundaryExceedsBothCutOffs ==
    MzDone =>
        \A i \in Frames : BoundaryAfter(i) =>
            /\ ExceedsCutOff(mzTable[i + 1] - mzTable[i],
                             mzClusterSectionID[i])
            /\ ExceedsCutOff(mzTable[i + 1] - mzTable[i],
                             mzClusterSectionID[i + 1])
            /\ ~JointRunMergesAcross(i)

\* C7 (amended): at every section boundary between frames i and i+1 the
\* gap exceeds mz_delta(mz[i]) + mz_delta(mz[i+1]) and therefore the
\* cut-off distance applied in the section that ends at frame i.
C7_BoundaryExceedsLeftCutOff ==
    MzDone =>
        \A i \in Frames : BoundaryAfter(i) =>
            /\ mzTable[i + 1] - mzTable[i] > DeltaOf(i) + DeltaOf(i + 1)
            /\ mzTable[i + 1] - mzTable[i] > CutOff(mzClusterSectionID[i])

C7_Witness ==
    /\ MzDone
    /\ \E i \in Frames :
          /\ BoundaryAfter(i)
          /\ Cardinality(SectionRows(mzClusterSectionID[i + 1])) > 1
          /\ mzPPMError > 0
          /\ DeltaOf(i) > 0

\* checks of the model itself: what fcluster returned is sound
FlatClustersWithinCutOff ==
    MzDone =>
        \A i, j \in Frames :
            (i < j /\ flatCluster[i] = flatCluster[j])
                => mzTable[j] - mzTable[i] <= CutOff(mzClusterSectionID[i])

FlatClustersComplete ==
    MzDone =>
        \A i, j \in Frames :
            (/\ i < j
             /\ SameSection(i, j)
             /\ mzTable[j] - mzTable[i] < MinOf({DeltaOf(i), DeltaOf(j)}))
                => flatCluster[i] = flatCluster[j]

\* cluster_by_mz has returned or raised
MzEnded == mzpc \notin {"idle", "sectioning", "clustering"}

\* C19: cluster_by_mz on a table of no frames or of a single frame
\* completes without error; the single frame receives mzClusterID 1 and the
\* empty table stays empty.
C19_TrivialTablesComplete ==
    (MzEnded /\ numRowsData <= 1) =>
        /\ mzpc = "done"
        /\ numRowsData = 1 => mzClusterID = <<1>>
        /\ numRowsData = 0 => mzClusterID = <<>>

\* C20: on a table that is not sorted ascending by m/z, cluster_by_mz ends
\* in InvalidInputError with no column added or changed: the mzClusterID
\* column never exists and no section ID is ever given.
C20_UnsortedRejected ==
    ~Ascending(mzTable) =>
        /\ mzClusterID = <<>>
        /\ \A i \in 1..Len(mzClusterSectionID) : mzClusterSectionID[i] = 0
        /\ MzEnded => mzpc = "InvalidInputError"

-----------------------------------------------------------------------------
(* Properties of drop_empty_frames *)

\* the positions (1-based, in cols) of the replicate intensity columns
\* [firstSampleIndex - 1, firstSampleIndex - 1 + numSamples * numTechReps)
ReplicateColumns ==
    {p + 1 : p \in (firstSampleIndex - 1)
                    ..(firstSampleIndex - 1 + numSamples * numTechReps - 1)}

AllReplicatesZero(cols) == \A c \in ReplicateColumns : cols[c] = 0

\* C16: after a call of drop_empty_frames a row of the table it was given
\* is gone if and only if all its replicate intensity columns were 0; the
\* rows left have their values, are in their original relative order, and
\* the index is 0..n-1.
C16_DropsExactlyEmptyRows ==
    reapCalls = 1 =>
        /\ \A i \in 1..Len(frameBefore) :
              (\E j \in 1..Len(frame) : frame[j].cols = frameBefore[i].cols)
                  <=> ~AllReplicatesZero(frameBefore[i].cols)
        /\ \A j \in 1..Len(frame) :
              \E i \in 1..Len(frameBefore) :
                  frame[j].cols = frameBefore[i].cols
        /\ \A j \in 1..(Len(frame) - 1) : frame[j].cols[1] < frame[j + 1].cols[1]
        /\ \A j \in 1..Len(frame) : frame[j].label = j - 1

\* a call has dropped a row between two rows that stay, one of them with a
\* single non-zero replicate
C16_Witness ==
    /\ reapCalls = 1
    /\ Len(frameBefore) = 3
    /\ Len(frame) = 2
    /\ AllReplicatesZero(frameBefore[2].cols)
    /\ numSamples * numTechReps = 2
    /\ \E c \in ReplicateColumns : frame[1].cols[c] = 0

\* C17: a second call of drop_empty_frames leaves the table as the first
\* call left it.
C17_ReapIdempotent ==
    reapCalls = 2 => frame = frameAfterFirst

\* the first call dropped several rows and the second call has been made
C17_Witness ==
    /\ reapCalls = 2
    /\ Len(frameBefore) - Len(frameAfterFirst) >= 2
    /\ Len(frameAfterFirst) >= 1

-----------------------------------------------------------------------------
(* Properties of mz_tol_range *)

\* C18: the range mz_tol_range returns for an m/z value with 6 decimals and
\* non-negative errors contains the m/z value: low <= mz <= high.
C18_RangeContainsMz ==
    tolpc = "done" => (tolRange[1] <= tolMz /\ tolMz <= tolRange[2])

-----------------------------------------------------------------------------
(* Properties of cluster_by_features *)

FeatDone == featpc = "done"

FeatPairs == 1..(Len(featData) - 1)

\* RT difference between row i and the next row of the sorted table
RTGapAfter(i) == featData[i + 1].rt - featData[i].rt

MzClusterChangesAfter(i) ==
    featData[i].mzClusterID # featData[i + 1].mzClusterID

SortedForFeatures ==
    \A i \in FeatPairs : FeatKeyLE(featData[i], featData[i + 1])

C12_GapStrictlyLess ==
    FeatDone =>
        \A i \in FeatPairs :
            featureClusterIDs[i] = featureClusterIDs[i + 1]
                => RTGapAfter(i) < maxRTDiffAdjFrame

-----------------------------------------------------------------------------
(* Properties of the categorisation loop, step by step *)

\* a frame that had a category when the iteration began now has another one
Recategorised ==
    /\ Len(catAtIterStart) = Len(peakCategory)
    /\ \E i \in 1..Len(peakCategory) :
          /\ catAtIterStart[i] # "--"
          /\ peakCategory[i] # catAtIterStart[i]

\* C21: no step of the pass (centre selection, peakiness check,
\* re-labelling, boundary growth, solvent marking, merge, final zeroing)
\* sets a frame's category back to Uncategorized: a frame that has a
\* category keeps having one in the next state.
C21_NeverUncategorised ==
    [][\A i \in 1..Len(peakCategory) :
          peakCategory[i] # "--" =>
              /\ Len(peakCategory') = Len(peakCategory)
              /\ peakCategory'[i] # "--"]_vars

\* a later iteration gave another category to a frame categorised before it
C21_Witness ==
    /\ iterations >= 2
    /\ Recategorised

\* the peak centre of the iteration has just been selected
CentreSelected == pc = "left"

\* C22: the frame selected as the new centre was Uncategorized when the
\* iteration began, has non-zero intensity, and has the largest original
\* intensity among the frames that were Uncategorized, the lowest index
\* among those holding that intensity.
C22_CentreIsLargestUncategorised ==
    CentreSelected =>
        LET c == peakCentreIndex
        IN  /\ catAtIterStart[c] = "--"
            /\ origIntensities[c] # 0
            /\ intensities[c] = origIntensities[c]
            /\ \A j \in 1..Len(origIntensities) :
                  catAtIterStart[j] = "--" =>
                      /\ origIntensities[j] <= origIntensities[c]
                      /\ j < c => origIntensities[j] < origIntensities[c]

\* a centre selected in a later iteration, among several Uncategorized
\* frames of its intensity, while a categorised frame holds a larger
\* original intensity and a zero frame is still Uncategorized
C22_Witness ==
    /\ CentreSelected
    /\ iterations >= 2
    /\ \E j \in 1..Len(origIntensities) :
          /\ j > peakCentreIndex
          /\ catAtIterStart[j] = "--"
          /\ origIntensities[j] = origIntensities[peakCentreIndex]
    /\ \E j \in 1..Len(origIntensities) :
          /\ catAtIterStart[j] # "--"
          /\ origIntensities[j] > origIntensities[peakCentreIndex]
    /\ \E j \in 1..Len(origIntensities) :
          catAtIterStart[j] = "--" /\ origIntensities[j] = 0

\* the "PF" frames of the range of the peak being finalised
PeakFramesOfRange ==
    {i \in peakLowestIndex..peakHighestIndex : peakCategory[i] = "PF"}

\* C23: under the default merge policy the step that finalises a peak adds
\* to the centre's intensity the largest intensity among the frames of
\* [low, high] tagged PeakFrame at that moment, and leaves it as it is when
\* the range holds no PeakFrame; it changes no other frame, and no other
\* step before the final zeroing changes any intensity.
C23_DefaultMerge ==
    [][/\ (pc = "merge" /\ ~concatAllFrames) =>
              intensities' = [intensities EXCEPT ![peakCentreIndex] =
                  IF PeakFramesOfRange = {}
                  THEN intensities[peakCentreIndex]
                  ELSE intensities[peakCentreIndex]
                           + MaxOf({intensities[i] : i \in PeakFramesOfRange})]
       /\ (pc # "merge" /\ pc' # "done") => intensities' = intensities]_vars

\* a peak has just been finalised under the default policy
JustMerged ==
    /\ pc = "loop"
    /\ ~concatAllFrames
    /\ Len(peakLog) > 0
    /\ peakLog[Len(peakLog)].centre = peakCentreIndex
    /\ peakCategory[peakCentreIndex] = "PC"
    /\ peakLog[Len(peakLog)].low = peakLowestIndex
    /\ peakLog[Len(peakLog)].high = peakHighestIndex

\* a peak finalised under the default policy with two PeakFrames of
\* different intensities, the centre holding its own intensity plus the
\* larger of the two
C23_Witness ==
    /\ JustMerged
    /\ \E i, j \in PeakFramesOfRange :
          /\ intensities[i] < intensities[j]
          /\ intensities[peakCentreIndex]
                 = origIntensities[peakCentreIndex] + intensities[j]

\* a peak finalised under the default policy whose flanks are all
\* SharedFrames
MergedWithSharedFlanksOnly ==
    /\ JustMerged
    /\ PeakFramesOfRange = {}
    /\ peakLowestIndex < peakHighestIndex

\* the frames of the current range that an earlier peak had tagged "PF"
ClaimedPeakFrames ==
    {i \in peakLowestIndex..peakHighestIndex : catAtIterStart[i] = "PF"}

\* the range of the peak has been re-labelled
RangeLabelled == pc \in {"growleft", "growright", "merge"}

\* C24: from the re-labelling on, every frame of the range of the new peak
\* that an earlier peak had tagged PeakFrame is tagged SharedFrame, whether
\* the peakiness check or the boundary growth brought it into the range; the
\* pass goes on to finalise the peak.
C24_ClaimedPeakFrameShared ==
    RangeLabelled => \A i \in ClaimedPeakFrames : peakCategory[i] = "PS"

\* a peak about to be finalised whose boundary growth took in a frame that
\* an earlier peak had tagged PeakFrame
C24_Witness ==
    /\ pc = "merge"
    /\ widePeak = "None"
    /\ \E i \in ClaimedPeakFrames :
          i < peakCentreIndex - 1 \/ i > peakCentreIndex + 1

\* a peak about to be finalised whose peakiness check took in a frame that
\* an earlier peak had tagged PeakFrame
SharedByPeakinessCheck ==
    /\ pc = "merge"
    /\ \E i \in ClaimedPeakFrames :
          i = peakCentreIndex - 1 \/ i = peakCentreIndex + 1

-----------------------------------------------------------------------------
(* Properties of the sectioning of cluster_by_mz *)

\* every frame has been given its section
Sectioned == mzpc \notin {"idle", "sectioning"}

SectionIDs == {mzClusterSectionID[i] : i \in Frames}

\* C25: when the sectioning has ended, every frame has one section ID, the
\* IDs start at 1 and rise by steps of 0 or 1 along the m/z-sorted table
\* (sections are contiguous runs), every section but the last holds at
\* least sectionMinSize frames, a boundary after frame i lies only where
\* mz[i+1] - mz[i] > mz_delta(mz[i]) + mz_delta(mz[i+1]), and a table of
\* fewer than sectionMinSize frames is one section.
C25_Sections ==
    (Sectioned /\ numRowsData > 0) =>
        /\ mzClusterSectionID[1] = 1
        /\ \A i \in Frames : i + 1 \in Frames =>
              \/ mzClusterSectionID[i + 1] = mzClusterSectionID[i]
              \/ mzClusterSectionID[i + 1] = mzClusterSectionID[i] + 1
        /\ \A sid \in SectionIDs :
              sid # mzClusterSectionID[numRowsData]
                  => Cardinality(SectionRows(sid)) >= sectionMinSize
        /\ \A i \in Frames : BoundaryAfter(i) =>
              mzTable[i + 1] - mzTable[i] > DeltaOf(i) + DeltaOf(i + 1)
        /\ numRowsData < sectionMinSize => SectionIDs = {1}
        /\ clusterSectionID = mzClusterSectionID[numRowsData]

\* a table cut into a section of more than sectionMinSize frames and a final
\* section of fewer, with a gap inside the first section, past its minimum
\* size, that did not pass the boundary test
C25_Witness ==
    /\ Sectioned
    /\ SectionIDs = {1, 2}
    /\ Cardinality(SectionRows(1)) > sectionMinSize + 1
    /\ Cardinality(SectionRows(2)) < sectionMinSize
    /\ \E i \in SectionRows(1) :
          /\ i > sectionMinSize
          /\ i + 1 \in SectionRows(1)
          /\ mzTable[i + 1] - mzTable[i] > 0

\* a table of exactly sectionMinSize frames is one section
ExactlyMinSizeIsOneSection ==
    /\ Sectioned
    /\ numRowsData = sectionMinSize
    /\ SectionIDs = {1}

-----------------------------------------------------------------------------
(* The legacy peakFinder.__featPeakAnalysis__ ("Peak filter - Optimiser    *)
(* and File amalgamation"), as a function of the intensity array inty and  *)
(* the retention times rt.  Its module globals peakMinFoldCutOff,          *)
(* peakMaxRTWidth and peakConcatenateAllFrames are set by                  *)
(* processAllFeatures from the same parameters as the current code reads.  *)

peakMinFoldCutOff == peakMinFoldDiff

peakConcatenateAllFrames == concatAllFrames

\* peakMinFoldCutOff * a >= b
CutOffGE(a, b) == peakMinFoldCutOff.num * a >= peakMinFoldCutOff.den * b

\* the while loop of __solventsLowRT__
RECURSIVE solventsLowRTLoop(_, _, _)
solventsLowRTLoop(mpc, inty, peakLowestRTIndex) ==
    IF 1 < peakLowestRTIndex
    THEN IF /\ mpc[peakLowestRTIndex - 1] = "--"
            /\ inty[peakLowestRTIndex - 1] # 0
         THEN IF CutOffGE(inty[peakLowestRTIndex], inty[peakLowestRTIndex - 1])
              THEN solventsLowRTLoop(
                       [mpc EXCEPT ![peakLowestRTIndex - 1] = "SF"], inty,
                       peakLowestRTIndex - 1)
              ELSE mpc
         ELSE mpc
    ELSE mpc

solventsLowRT(mpc, inty, peakLowestRTIndex) ==
    solventsLowRTLoop([mpc EXCEPT ![peakLowestRTIndex] = "SF"], inty,
                      peakLowestRTIndex)

\* the while loop of __solventsHighRT__
RECURSIVE solventsHighRTLoop(_, _, _, _)
solventsHighRTLoop(mpc, inty, peakHighestRTIndex, featureClusterHighestRTIndex) ==
    IF featureClusterHighestRTIndex > peakHighestRTIndex
    THEN IF /\ mpc[peakHighestRTIndex + 1] = "--"
            /\ inty[peakHighestRTIndex + 1] # 0
         THEN IF CutOffGE(inty[peakHighestRTIndex],
                          inty[peakHighestRTIndex + 1])
              THEN solventsHighRTLoop(
                       [mpc EXCEPT ![peakHighestRTIndex + 1] = "SF"], inty,
                       peakHighestRTIndex + 1, featureClusterHighestRTIndex)
              ELSE mpc
         ELSE mpc
    ELSE mpc

solventsHighRT(mpc, inty, peakHighestRTIndex, featureClusterHighestRTIndex) ==
    solventsHighRTLoop([mpc EXCEPT ![peakHighestRTIndex] = "SF"], inty,
                       peakHighestRTIndex, featureClusterHighestRTIndex)

\* "Check left side for peakiness": continue is TRUE when the iteration
\* ends with a solvent feature
peakinessLeft(inty, c) ==
    IF 1 < c
    THEN IF inty[c - 1] # 0
         THEN IF CutOffGE(inty[c - 1], inty[c])
              THEN IF 1 < c - 1
                   THEN IF inty[c - 2] # 0
                        THEN IF CutOffGE(inty[c - 2], inty[c - 1])
                             THEN [continue |-> TRUE, low |-> c,
                                   widePeak |-> "None", framesLeft |-> TRUE]
                             ELSE [continue |-> FALSE, low |-> c - 2,
                                   widePeak |-> "Left", framesLeft |-> TRUE]
                        ELSE [continue |-> FALSE, low |-> c - 1,
                              widePeak |-> "Left", framesLeft |-> FALSE]
                   ELSE [continue |-> FALSE, low |-> c - 1,
                         widePeak |-> "Left", framesLeft |-> FALSE]
              ELSE [continue |-> FALSE, low |-> c - 1,
                    widePeak |-> "None", framesLeft |-> TRUE]
         ELSE [continue |-> FALSE, low |-> c,
               widePeak |-> "None", framesLeft |-> FALSE]
    ELSE [continue |-> FALSE, low |-> c,
          widePeak |-> "None", framesLeft |-> FALSE]

\* variant: the branches without further right frames record the wide peak,
\* as those of the left check do
peakinessRight_WideRecorded(inty, c, wide) ==
    LET highest == Len(inty)
    IN  IF highest > c
        THEN IF inty[c + 1] # 0
             THEN IF CutOffGE(inty[c + 1], inty[c])
                  THEN IF wide # "None"
                       THEN [continue |-> TRUE, high |-> c,
                             widePeak |-> wide, framesRight |-> TRUE]
                       ELSE IF highest > c + 1
                       THEN IF inty[c + 2] # 0
                            THEN IF CutOffGE(inty[c + 2], inty[c + 1])
                                 THEN [continue |-> TRUE, high |-> c,
                                       widePeak |-> wide,
                                       framesRight |-> TRUE]
                                 ELSE [continue |-> FALSE, high |-> c + 2,
                                       widePeak |-> "Right",
                                       framesRight |-> TRUE]
                            ELSE [continue |-> FALSE, high |-> c + 1,
                                  widePeak |-> "Right", framesRight |-> FALSE]
                       ELSE [continue |-> FALSE, high |-> c + 1,
                             widePeak |-> "Right", framesRight |-> FALSE]
                  ELSE [continue |-> FALSE, high |-> c + 1,
                        widePeak |-> wide, framesRight |-> TRUE]
             ELSE [continue |-> FALSE, high |-> c,
                   widePeak |-> wide, framesRight |-> FALSE]
        ELSE [continue |-> FALSE, high |-> c,
              widePeak |-> wide, framesRight |-> FALSE]

\* "Check right side for peakiness", given widePeak as the left check set it
peakinessRight(inty, c, wide) ==
    LET highest == Len(inty)
    IN  IF highest > c
        THEN IF inty[c + 1] # 0
             THEN IF CutOffGE(inty[c + 1], inty[c])
                  THEN IF wide # "None"
                       THEN [continue |-> TRUE, high |-> c,
                             widePeak |-> wide, framesRight |-> TRUE]
                       ELSE IF highest > c + 1
                       THEN IF inty[c + 2] # 0
                            THEN IF CutOffGE(inty[c + 2], inty[c + 1])
                                 THEN [continue |-> TRUE, high |-> c,
                                       widePeak |-> wide,
                                       framesRight |-> TRUE]
                                 ELSE [continue |-> FALSE, high |-> c + 2,
                                       widePeak |-> "Right",
                                       framesRight |-> TRUE]
                            ELSE [continue |-> FALSE, high |-> c + 1,
                                  widePeak |-> wide, framesRight |-> FALSE]
                       ELSE [continue |-> FALSE, high |-> c + 1,
                             widePeak |-> wide, framesRight |-> FALSE]
                  ELSE [continue |-> FALSE, high |-> c + 1,
                        widePeak |-> wide, framesRight |-> TRUE]
             ELSE [continue |-> FALSE, high |-> c,
                   widePeak |-> wide, framesRight |-> FALSE]
        ELSE [continue |-> FALSE, high |-> c,
              widePeak |-> wide, framesRight |-> FALSE]

\* the while loop that completes the low RT side of the peak
RECURSIVE completeLowRT(_, _, _, _, _)
completeLowRT(inty, rt, mpc, peakLowestRTIndex, rtPCentre) ==
    IF 1 < peakLowestRTIndex
    THEN IF inty[peakLowestRTIndex - 1] = 0
         THEN [mpc |-> mpc, low |-> peakLowestRTIndex]
         ELSE IF Round3(rtPCentre - rt[peakLowestRTIndex - 1])
                     <= Round3(peakMaxRTWidth \div 2)
         THEN IF CutOffGE(inty[peakLowestRTIndex - 1], inty[peakLowestRTIndex])
              THEN [mpc |-> IF CutOffGE(inty[peakLowestRTIndex],
                                        inty[peakLowestRTIndex - 1])
                            THEN solventsLowRT(mpc, inty, peakLowestRTIndex - 1)
                            ELSE mpc,
                    low |-> peakLowestRTIndex]
              ELSE completeLowRT(inty, rt,
                       [mpc EXCEPT ![peakLowestRTIndex - 1] =
                           IF mpc[peakLowestRTIndex - 1] = "PF"
                           THEN "PS" ELSE "PF"],
                       peakLowestRTIndex - 1, rtPCentre)
         ELSE [mpc |-> IF /\ mpc[peakLowestRTIndex - 1] = "--"
                          /\ CutOffGE(inty[peakLowestRTIndex],
                                      inty[peakLowestRTIndex - 1])
                       THEN solventsLowRT(mpc, inty, peakLowestRTIndex - 1)
                       ELSE mpc,
               low |-> peakLowestRTIndex]
    ELSE [mpc |-> mpc, low |-> peakLowestRTIndex]

\* the while loop that completes the high RT side of the peak
RECURSIVE completeHighRT(_, _, _, _, _)
completeHighRT(inty, rt, mpc, peakHighestRTIndex, rtPCentre) ==
    LET highest == Len(inty)
    IN  IF highest > peakHighestRTIndex
        THEN IF inty[peakHighestRTIndex + 1] = 0
             THEN [mpc |-> mpc, high |-> peakHighestRTIndex]
             ELSE IF Round3(rt[peakHighestRTIndex + 1] - rtPCentre)
                         <= Round3(peakMaxRTWidth \div 2)
             THEN IF CutOffGE(inty[peakHighestRTIndex + 1],
                              inty[peakHighestRTIndex])
                  THEN [mpc |-> IF CutOffGE(inty[peakHighestRTIndex],
                                            inty[peakHighestRTIndex + 1])
                                THEN solventsHighRT(mpc, inty,
                                         peakHighestRTIndex + 1, highest)
                                ELSE mpc,
                        high |-> peakHighestRTIndex]
                  ELSE completeHighRT(inty, rt,
                           [mpc EXCEPT ![peakHighestRTIndex + 1] =
                               IF mpc[peakHighestRTIndex + 1] = "PF"
                               THEN "PS" ELSE "PF"],
                           peakHighestRTIndex + 1, rtPCentre)
             ELSE [mpc |-> IF /\ mpc[peakHighestRTIndex + 1] = "--"
                              /\ CutOffGE(inty[peakHighestRTIndex],
                                          inty[peakHighestRTIndex + 1])
                           THEN solventsHighRT(mpc, inty,
                                    peakHighestRTIndex + 1, highest)
                           ELSE mpc,
                   high |-> peakHighestRTIndex]
        ELSE [mpc |-> mpc, high |-> peakHighestRTIndex]

\* one iteration of the while loop of __featPeakAnalysis__
featPeakIteration(inty, rt, mpc, intPeakCat) ==
    LET ipc == [i \in 1..Len(inty) |->
                  IF mpc[i] # "--" THEN -1 ELSE intPeakCat[i]]
        c == ArgMax(ipc)
        mpcPC == [mpc EXCEPT ![c] = "PC"]
        solvent == [inty |-> inty,
                    mpc |-> solventsHighRT(solventsLowRT(mpcPC, inty, c),
                                           inty, c, Len(inty)),
                    intPeakCat |-> ipc]
        left == peakinessLeft(inty, c)
        right == peakinessRight(inty, c, left.widePeak)
    IN  IF left.continue THEN solvent
        ELSE IF right.continue THEN solvent
        ELSE LET rtPCentre ==
                     IF right.widePeak = "Left" THEN (rt[c] + rt[c - 1]) \div 2
                     ELSE IF right.widePeak = "Right"
                     THEN (rt[c] + rt[c + 1]) \div 2
                     ELSE rt[c]
                 shared == [i \in 1..Len(mpc) |->
                              IF i \in left.low..right.high /\ mpcPC[i] = "PF"
                              THEN "PS" ELSE mpcPC[i]]
                 framed == [i \in 1..Len(mpc) |->
                              IF /\ i \in left.low..right.high
                                 /\ shared[i] # "PC" /\ shared[i] # "PS"
                              THEN "PF" ELSE shared[i]]
                 lowSide == IF left.framesLeft
                            THEN completeLowRT(inty, rt, framed, left.low,
                                               rtPCentre)
                            ELSE [mpc |-> framed, low |-> left.low]
                 highSide == IF right.framesRight
                             THEN completeHighRT(inty, rt, lowSide.mpc,
                                                 right.high, rtPCentre)
                             ELSE [mpc |-> lowSide.mpc, high |-> right.high]
                 pfs == {i \in lowSide.low..highSide.high :
                            highSide.mpc[i] = "PF"}
             IN  [inty |-> [inty EXCEPT ![c] =
                      IF peakConcatenateAllFrames
                      THEN SumRange(inty, lowSide.low, highSide.high)
                      ELSE IF Cardinality(pfs) > 0
                      THEN inty[c] + MaxOf({inty[i] : i \in pfs})
                      ELSE inty[c]],
                  mpc |-> highSide.mpc,
                  intPeakCat |-> ipc]

\* the while loop of __featPeakAnalysis__ from the state (inty, mpc,
\* intPeakCat), stopped after the given number of iterations when that
\* number is not negative
RECURSIVE featPeakLoop(_, _, _, _, _)
featPeakLoop(inty, rt, mpc, intPeakCat, stopAfter) ==
    IF /\ stopAfter # 0
       /\ Cardinality({i \in 1..Len(mpc) : mpc[i] = "--"})
              > Cardinality({i \in 1..Len(inty) : inty[i] = 0})
    THEN LET s == featPeakIteration(inty, rt, mpc, intPeakCat)
         IN  featPeakLoop(s.inty, rt, s.mpc, s.intPeakCat, stopAfter - 1)
    ELSE [inty |-> inty, mpc |-> mpc, intPeakCat |-> intPeakCat]

\* the state of __featPeakAnalysis__ after the given number of iterations
featPeakAfter(inty, rt, iters) ==
    featPeakLoop(inty, rt, [i \in 1..Len(inty) |-> "--"], inty, iters)

\* the categories and the intensities __featPeakAnalysis__ ends with
featPeakAnalysis(inty, rt) ==
    LET s == featPeakAfter(inty, rt, -1)
    IN  [inty |-> [i \in 1..Len(inty) |->
                     IF s.mpc[i] # "PC" THEN 0 ELSE s.inty[i]],
         mpc |-> s.mpc]

\* the intensities __singleRepFeature__ returns
singleRepFeature(inty, rt) ==
    IF CountNonzero(inty) > 1 THEN featPeakAnalysis(inty, rt).inty ELSE inty

-----------------------------------------------------------------------------
(* The current and the legacy analysis side by side *)

\* C26: the legacy __featPeakAnalysis__ and the current
\* __feat_peak_analysis__ agree step for step: at the loop test after any
\* number of iterations they hold the same intensities, the same categories
\* and the same array of uncategorised intensities, and the calls return
\* the same intensities and categories.
C26_LegacyAgrees ==
    /\ pc = "loop" =>
          LET s == featPeakAfter(origIntensities, repRT, iterations)
          IN  /\ s.inty = intensities
              /\ s.mpc = peakCategory
              /\ s.intPeakCat = intensityPeakCat
    /\ PassEnded =>
          LET f == featPeakAnalysis(origIntensities, repRT)
          IN  f.inty = intensities /\ f.mpc = peakCategory
    /\ pc = "done" => intensities = singleRepFeature(origIntensities, repRT)

\* a pass that ended after several iterations, a solvent feature and a
\* peak of several frames, in which both analyses changed the array in the
\* same way
C26_Witness ==
    /\ PassEnded
    /\ iterations >= 2
    /\ \E i \in 1..Len(peakCategory) : peakCategory[i] = "SF"
    /\ \E k \in 1..Len(peakLog) : peakLog[k].high > peakLog[k].low
    /\ intensities # origIntensities
    /\ featPeakAnalysis(origIntensities, repRT).inty = intensities

\* a pass that ended with a frame shared by two peaks
LegacyAgreesOnSharedFrame ==
    /\ PassEnded
    /\ \E i \in 1..Len(peakCategory) : peakCategory[i] = "PS"
    /\ featPeakAnalysis(origIntensities, repRT).mpc = peakCategory

-----------------------------------------------------------------------------
(* Properties of the peaks finalised earlier in the pass *)

\* the centres of the peaks finalised so far
FinalisedCentres == {peakLog[k].centre : k \in 1..Len(peakLog)}

\* the range of the peak being built, once the peakiness check has set it
RangeOfNewPeak ==
    IF pc \in {"relabel", "growleft", "growright", "merge"}
    THEN peakLowestIndex..peakHighestIndex
    ELSE {}

\* no step changes the category of the centre of a finalised peak
FinalisedCentreKeepsCategory ==
    [][\A c \in FinalisedCentres : peakCategory'[c] = "PC"]_vars

\* no step changes the intensity of the centre of a finalised peak
FinalisedCentreKeepsIntensity ==
    [][\A c \in FinalisedCentres : intensities'[c] = intensities[c]]_vars

\* the range of a later peak holds no centre of a finalised peak
FinalisedCentreOutsideLaterRanges ==
    \A c \in FinalisedCentres :
        c # peakCentreIndex => c \notin RangeOfNewPeak

\* C27: once a peak has been finalised, no later step changes the category
\* or the intensity of its centre, and the range of no later peak holds
\* that centre.
C27_FinalisedCentreStable ==
    /\ []FinalisedCentreOutsideLaterRanges
    /\ FinalisedCentreKeepsCategory
    /\ FinalisedCentreKeepsIntensity

\* the pass ended after two peaks, the second sharing a frame with the
\* first, whose centre kept the intensity merged into it
C27_Witness ==
    /\ PassEnded
    /\ Len(peakLog) >= 2
    /\ \E i \in 1..Len(peakCategory) : peakCategory[i] = "PS"
    /\ intensities[peakLog[1].centre] > origIntensities[peakLog[1].centre]
    /\ peakLog[2].low <= peakLog[1].high
    /\ peakLog[1].low <= peakLog[2].high

-----------------------------------------------------------------------------
(* Properties of the frames tagged SolventFrame *)

\* no step re-tags a "SF" frame "PF"
SolventNeverPeakFrame ==
    [][\A i \in 1..Len(peakCategory) :
          peakCategory[i] = "SF" => peakCategory'[i] # "PF"]_vars

\* the range of a peak being finalised holds no frame that was "SF" when
\* the iteration began
SolventOutsideMergedRange ==
    pc = "merge" =>
        \A i \in peakLowestIndex..peakHighestIndex : catAtIterStart[i] # "SF"

\* C28: a frame tagged SolventFrame in one iteration is never re-tagged
\* PeakFrame by a later one, and is in the range of no peak finalised later,
\* so that its intensity is never added to a PeakCentre.
C28_SolventFrameStaysOut ==
    /\ []SolventOutsideMergedRange
    /\ SolventNeverPeakFrame

-----------------------------------------------------------------------------
(* Total intensity *)

\* C29: when the pass has returned, the sum of the intensities is at most
\* the sum of the original intensities, under either merge policy.
C29_NoIntensityCreated ==
    pc = "done" => SumSeq(intensities) <= SumSeq(origIntensities)

\* the same bound under the default merge policy alone
NoIntensityCreatedByDefaultPolicy ==
    (pc = "done" /\ ~concatAllFrames)
        => SumSeq(intensities) <= SumSeq(origIntensities)

-----------------------------------------------------------------------------
(* Width of the finalised peaks *)

\* C30: when a peak is finalised, every frame of its range [low, high] lies
\* within round(peakMaxRTWidth / 2, 3) of the effective centre RT (the
\* distance rounded to 3 decimals), so that the peak spans no more than
\* peakMaxRTWidth.
C30_PeakWithinWidth ==
    pc = "merge" =>
        /\ \A i \in peakLowestIndex..peakHighestIndex :
              /\ i < peakCentreIndex => Round3(rtPC - repRT[i]) <= HalfWidth
              /\ i > peakCentreIndex => Round3(repRT[i] - rtPC) <= HalfWidth
        /\ repRT[peakHighestIndex] - repRT[peakLowestIndex] <= peakMaxRTWidth

\* no peak is finalised with a span above peakMaxRTWidth
SpanWithinWidth ==
    pc = "merge" =>
        repRT[peakHighestIndex] - repRT[peakLowestIndex] <= peakMaxRTWidth

====
